---- MODULE Spec2Model ----
(***************************************************************************)
(* State-machine model of the transcription pipeline of ai-note:           *)
(*   backend/services/whisper_service.py  (WhisperService)                 *)
(*   backend/utils/file_utils.py          (FileUtils)                      *)
(*   backend/app.py                       (upload / delete routes)         *)
(*                                                                         *)
(* File names are sequences of one-character strings, so that Path.stem,   *)
(* os.path.splitext, str.startswith and the length limit of                *)
(* _generate_safe_filename are computed as the code computes them.         *)
(* A loaded model handle is represented by the identifier it was loaded    *)
(* from ("None" when no handle is resident).                               *)
(***************************************************************************)
EXTENDS Integers, Sequences, FiniteSets, TLC

VARIABLES
    WhisperModel,            \* module global: TRUE iff faster_whisper imported
    FFmpeg,                  \* module global: TRUE iff ffmpy imported
    env_format,              \* os.environ SUBTITLE_OUTPUT_FORMAT (or 'vtt')
    current_model,           \* self.current_model (handle, by source id)
    current_model_name,      \* self.current_model_name
    SUBTITLE_OUTPUT_FORMAT,  \* self.config.SUBTITLE_OUTPUT_FORMAT
    config_file,             \* whisper_config.json on disk
    temp,                    \* Temp folder: file name -> content tag
    usec,                    \* microsecond clock read by _preprocess_audio
    now,                     \* wall clock in seconds read by upload_file
    issued,                  \* file_id -> stored path of the successful uploads
    subtitles,               \* Subtitles folder: file name -> content tag
    last,                    \* report of the last completed call (probe)
    th,                      \* the request threads: position and locals of each
    model_folder,            \* Model folder: identifier -> state of its directory
    hub_cache,               \* ~/.cache/huggingface/hub: its entries, if it exists
    ai_configs               \* data/ai_configs.db: table ai_configs and its sequence

vars == <<WhisperModel, FFmpeg, env_format, current_model, current_model_name,
          SUBTITLE_OUTPUT_FORMAT, config_file, temp, usec, now, issued,
          subtitles, last, th, model_folder, hub_cache, ai_configs>>

\* fixed by the deployment
deployment == <<WhisperModel, FFmpeg, env_format>>

\* state of the upload routes
correlator == <<now, issued>>

\* the model directories and the provider configurations, which the
\* transcription and upload routes neither read nor write
stores == <<model_folder, hub_cache, ai_configs>>

-----------------------------------------------------------------------------
(* Bounds of the model *)

\* number of _preprocess_audio time stamps a behaviour may draw
MaxUsec == 1

\* seconds the wall clock may advance while files are uploaded
MaxNow == 1

\* entries the Temp folder may hold while files are uploaded
MaxFiles == 2

\* request threads of the server that are inside the service at once
MaxThreads == 2

\* the times rendered are the milliseconds b .. b + MaxOffset after each of
\* the TimeBases
MaxOffset == 99

\* segments of a transcript that is rendered
MaxSegments == 3

-----------------------------------------------------------------------------
(* Characters and time stamps *)

DigitChars == <<"0", "1", "2", "3", "4", "5", "6", "7", "8", "9">>

Digit(n) == DigitChars[n + 1]

\* datetime.now().strftime('%Y%m%d_%H%M%S') at second t of the modelled day
Stamp(t) ==
    <<"2", "0", "2", "5", "0", "1", "0", "1", "_", "0", "0", "0", "0", "0">>
        \o <<Digit(t)>>

\* datetime.now().strftime('%Y%m%d_%H%M%S_%f') at microsecond u
StampUs(u) == Stamp(0) \o <<"_", "0", "0", "0", "0", "0", Digit(u)>>

MP3 == <<".", "m", "p", "3">>

MP4 == <<".", "m", "p", "4">>

\* f"preprocessed_audio_{timestamp}.mp3"
ScratchName(u) ==
    <<"p", "r", "e", "p", "r", "o", "c", "e", "s", "s", "e", "d", "_",
      "a", "u", "d", "i", "o", "_">> \o StampUs(u) \o MP3

NoPath == <<>>

-----------------------------------------------------------------------------
(* Config *)

WHISPER_DEFAULT_MODEL == "base"

WHISPER_AVAILABLE_MODELS == {"base", "large-v3-turbo"}

SUBTITLE_AVAILABLE_FORMATS == {"srt", "vtt"}

\* identifiers a caller may name; "tiny" is a model the recognition library
\* knows but the static registry does not list
ModelIds == WHISPER_AVAILABLE_MODELS \cup {"tiny"}

\* values the format setting may hold ("ass" is outside the allow-list)
FormatValues == SUBTITLE_AVAILABLE_FORMATS \cup {"ass"}

-----------------------------------------------------------------------------
(* Persisted selection record (whisper_config.json) *)

AbsentFile == [state |-> "absent", current_model |-> "", subtitle_output_format |-> ""]

CorruptFile == [state |-> "corrupt", current_model |-> "", subtitle_output_format |-> ""]

RecordFile(name, fmt) ==
    [state |-> "ok", current_model |-> name, subtitle_output_format |-> fmt]

\* outcomes of open(...,'w') + json.dump: written, open raised (file as it
\* was), or the write raised after open truncated the file
SaveOutcomes == {"ok", "open_fails", "write_fails"}

\* WhisperService._save_config: the file after the call (never raises)
_save_config(name, fmt, file, save) ==
    CASE save = "ok" -> RecordFile(name, fmt)
      [] save = "open_fails" -> file
      [] OTHER -> CorruptFile

-----------------------------------------------------------------------------
(* FileUtils: names *)

UpperChars ==
    <<"A", "B", "C", "D", "E", "F", "G", "H", "I", "J", "K", "L", "M",
      "N", "O", "P", "Q", "R", "S", "T", "U", "V", "W", "X", "Y", "Z">>

LowerChars ==
    <<"a", "b", "c", "d", "e", "f", "g", "h", "i", "j", "k", "l", "m",
      "n", "o", "p", "q", "r", "s", "t", "u", "v", "w", "x", "y", "z">>

Range(seq) == {seq[i] : i \in DOMAIN seq}

\* str.lower
Lower(str) ==
    [i \in DOMAIN str |->
        IF \E k \in DOMAIN UpperChars : UpperChars[k] = str[i]
        THEN LowerChars[CHOOSE k \in DOMAIN UpperChars : UpperChars[k] = str[i]]
        ELSE str[i]]

\* str.rfind('.') as a 1-based position, 0 when there is no dot
RECURSIVE LastDotFrom(_, _)
LastDotFrom(str, i) ==
    IF i = 0 THEN 0
    ELSE IF str[i] = "." THEN i
    ELSE LastDotFrom(str, i - 1)

LastDot(str) == LastDotFrom(str, Len(str))

\* pathlib.Path(name).suffix: from the last dot, unless the dot is the first
\* or the last character
Suffix(name) ==
    LET d == LastDot(name)
    IN  IF 1 < d /\ d < Len(name) THEN SubSeq(name, d, Len(name)) ELSE <<>>

\* pathlib.Path(name).stem
Stem(name) == SubSeq(name, 1, Len(name) - Len(Suffix(name)))

\* os.path.splitext: split at the last dot unless only dots precede it
SplitExt(name) ==
    LET d == LastDot(name)
    IN  IF d > 0 /\ \E j \in 1..(d - 1) : name[j] # "."
        THEN [root |-> SubSeq(name, 1, d - 1), ext |-> SubSeq(name, d, Len(name))]
        ELSE [root |-> name, ext |-> <<>>]

\* str.startswith
StartsWith(str, prefix) ==
    /\ Len(prefix) <= Len(str)
    /\ SubSeq(str, 1, Len(prefix)) = prefix

SafeChars ==
    {"-", "_", ".", "(", ")", " "} \cup Range(LowerChars) \cup Range(UpperChars)
        \cup Range(DigitChars)

IsSafeChar(c) == c \in SafeChars

SafeNameLimit == 100

SafeNameKeep == 95

\* FileUtils._generate_safe_filename
_generate_safe_filename(filename) ==
    LET kept == SelectSeq(filename, IsSafeChar)
        safe_filename ==
            IF kept = <<>>
            THEN <<"u", "p", "l", "o", "a", "d", "e", "d", "_", "f", "i", "l", "e">>
            ELSE kept
        parts == SplitExt(safe_filename)
    IN  IF Len(safe_filename) > SafeNameLimit
        THEN SubSeq(parts.root, 1, IF Len(parts.root) < SafeNameKeep
                                   THEN Len(parts.root) ELSE SafeNameKeep)
                \o parts.ext
        ELSE safe_filename

ALLOWED_EXTENSIONS ==
    {<<".", "m", "p", "4">>, <<".", "a", "v", "i">>, <<".", "m", "o", "v">>,
     <<".", "m", "k", "v">>, <<".", "w", "m", "v">>, <<".", "f", "l", "v">>,
     <<".", "w", "e", "b", "m">>, <<".", "m", "p", "3">>, <<".", "w", "a", "v">>,
     <<".", "f", "l", "a", "c">>, <<".", "a", "a", "c">>, <<".", "o", "g", "g">>,
     <<".", "m", "4", "a">>}

\* FileUtils.validate_file on an existing file of the Temp folder.  The
\* request size limit keeps the size within MAX_CONTENT_LENGTH, and every
\* allowed extension maps to no MIME type or to a video/ or audio/ type.
validate_file(name) == Lower(Suffix(name)) \in ALLOWED_EXTENSIONS

\* the name FileUtils.save_uploaded_file stores the upload under
StoredName(filename, timestamp) ==
    LET parts == SplitExt(_generate_safe_filename(filename))
    IN  parts.root \o <<"_">> \o timestamp \o parts.ext

-----------------------------------------------------------------------------
(* Temp folder *)

\* a folder without entries
EmptyDir == [n \in {} |-> "media"]

Exists(files, path) == path \in DOMAIN files

\* a file written (created or overwritten) with the given content
WriteFile(files, path, content) ==
    [n \in DOMAIN files \cup {path} |-> IF n = path THEN content ELSE files[n]]

\* os.remove
RemoveFile(files, path) == [n \in DOMAIN files \ {path} |-> files[n]]

-----------------------------------------------------------------------------
(* Stores at rest *)

\* Model/faster-whisper-{model_name}: no model directory is installed
NoModels == [m \in WHISPER_AVAILABLE_MODELS |-> "absent"]

\* the download cache directory does not exist
NoCache == [exists |-> FALSE, items |-> EmptyDir]

\* the table after CREATE TABLE IF NOT EXISTS on a new database: the rows by
\* id, and the last id AUTOINCREMENT gave out
EmptyTable == [rows |-> <<>>, seq |-> 0]

StoresAtRest ==
    /\ model_folder = NoModels
    /\ hub_cache = NoCache
    /\ ai_configs = EmptyTable

-----------------------------------------------------------------------------
(* Model runtime *)

Runtime(ret, handle, name, file, loads) ==
    [ret |-> ret, current_model |-> handle, current_model_name |-> name,
     config_file |-> file, loads |-> loads]

\* _load_model without the "already the target model" return
_load_model_reloads(model_name, load_ok, save) ==
    IF ~WhisperModel
    THEN Runtime(TRUE, current_model, current_model_name, config_file, 0)
    ELSE IF ~load_ok
    THEN Runtime(FALSE, current_model, current_model_name, config_file, 1)
    ELSE Runtime(TRUE, model_name, model_name,
                 _save_config(model_name, SUBTITLE_OUTPUT_FORMAT, config_file, save),
                 1)

\* _load_model assigning current_model_name before the constructor is called
_load_model_name_first(model_name, load_ok, save) ==
    IF ~WhisperModel
    THEN Runtime(TRUE, current_model, current_model_name, config_file, 0)
    ELSE IF current_model # "None" /\ current_model_name = model_name
    THEN Runtime(TRUE, current_model, current_model_name, config_file, 0)
    ELSE IF ~load_ok
    THEN Runtime(FALSE, current_model, model_name, config_file, 1)
    ELSE Runtime(TRUE, model_name, model_name,
                 _save_config(model_name, SUBTITLE_OUTPUT_FORMAT, config_file, save),
                 1)

\* _load_model calling _save_config before it assigns current_model_name
_load_model_stale_record(model_name, load_ok, save) ==
    IF ~WhisperModel
    THEN Runtime(TRUE, current_model, current_model_name, config_file, 0)
    ELSE IF current_model # "None" /\ current_model_name = model_name
    THEN Runtime(TRUE, current_model, current_model_name, config_file, 0)
    ELSE IF ~load_ok
    THEN Runtime(FALSE, current_model, current_model_name, config_file, 1)
    ELSE Runtime(TRUE, model_name, model_name,
                 _save_config(current_model_name, SUBTITLE_OUTPUT_FORMAT,
                              config_file, save),
                 1)

\* WhisperService._load_model.  load_ok: the WhisperModel(...) constructor
\* returns (from the local directory or after a download) instead of
\* raising; save: what the record write does.  loads counts constructor
\* calls.  The result carries the runtime fields after the call.
_load_model(model_name, load_ok, save) ==
    IF ~WhisperModel
    THEN Runtime(TRUE, current_model, current_model_name, config_file, 0)
    ELSE IF current_model # "None" /\ current_model_name = model_name
    THEN Runtime(TRUE, current_model, current_model_name, config_file, 0)
    ELSE IF ~load_ok
    THEN Runtime(FALSE, current_model, current_model_name, config_file, 1)
    ELSE Runtime(TRUE, model_name, model_name,
                 _save_config(model_name, SUBTITLE_OUTPUT_FORMAT, config_file, save),
                 1)

\* WhisperService.get_current_model
get_current_model ==
    [name |-> current_model_name, is_loaded |-> current_model # "None"]

\* the fields of a call report; each operation fills in those it produces
\* (resident_before: the handle when the call began; loads: constructor
\* calls; tool: what the normalization tool did; recognized: the path handed
\* to the decoder; remove_raised: os.remove raised in the cleanup; body: the
\* model_name of the request body; subtitle_file: the 'subtitle_file' of the
\* result; written: the subtitle documents the call created or wrote;
\* message: the kind of 'message' of the result; propagated: an exception
\* left the call instead of a result)
Report(op, model_name, file_path, success, rt, norm, run) ==
    [op |-> op, model_name |-> model_name, file_path |-> file_path,
     success |-> success, resident_before |-> current_model,
     loads |-> rt.loads, load_raised |-> (rt.loads = 1 /\ ~rt.ret),
     normalizer_raised |-> norm.raised, normalized |-> norm.path,
     created |-> norm.created, tool |-> run.tool,
     recognized |-> run.recognized, decoder |-> run.decoder,
     remove_raised |-> run.remove_raised,
     model_used |-> rt.current_model_name,
     body |-> run.body, subtitle_file |-> run.subtitle_file,
     written |-> run.written, message |-> run.message,
     propagated |-> run.propagated, writer |-> run.writer,
     segments |-> run.segments, duration |-> run.duration]

\* what became of the record write of a call: "none" when the call
\* constructed no model and so wrote no record
RecordWrite(rt, save) == IF rt.loads = 1 /\ rt.ret THEN save ELSE "none"

\* nothing was normalized or decoded
NoRun == [tool |-> "none", recognized |-> NoPath, decoder |-> "none",
          remove_raised |-> FALSE, body |-> "None", subtitle_file |-> NoPath,
          written |-> {}, message |-> "none", propagated |-> FALSE,
          writer |-> "none", segments |-> <<>>, duration |-> {}]

\* the normalizer was not called
NoNorm == [raised |-> FALSE, path |-> NoPath, created |-> {}, files |-> temp]

\* WhisperService.select_model
select_model(model_name, load_ok, save) ==
    LET rt == IF model_name \notin WHISPER_AVAILABLE_MODELS
              THEN Runtime(FALSE, current_model, current_model_name, config_file, 0)
              ELSE _load_model(model_name, load_ok, save)
    IN  /\ current_model' = rt.current_model
        /\ current_model_name' = rt.current_model_name
        /\ config_file' = rt.config_file
        /\ last' = Report("select_model", model_name, NoPath, rt.ret, rt,
                          NoNorm,
                          [NoRun EXCEPT !.body = model_name,
                                        !.message =
                                            IF model_name \notin WHISPER_AVAILABLE_MODELS
                                            THEN "unsupported_model"
                                            ELSE IF rt.ret THEN "model_switched"
                                            ELSE "model_load_failed"])
                        @@ [save |-> RecordWrite(rt, save)]
        /\ UNCHANGED <<deployment, stores, th, subtitles, correlator, SUBTITLE_OUTPUT_FORMAT, temp, usec>>

-----------------------------------------------------------------------------
(* Audio normalizer *)

\* what the external tool does: writes the whole output, raises without
\* writing, raises after part of the output was written, or ends without
\* an output file
ToolOutcomes == {"ok", "raise", "raise_partial", "no_output"}

\* _preprocess_audio returning the scratch path without the exists() check
_preprocess_audio_unchecked(input_path, files, u, ff) ==
    IF ~FFmpeg
    THEN [raised |-> FALSE, path |-> input_path, created |-> {}, files |-> files]
    ELSE LET temp_output == ScratchName(u)
             written == CASE ff = "ok" -> WriteFile(files, temp_output, "normalized")
                          [] ff = "raise_partial" -> WriteFile(files, temp_output, "partial")
                          [] OTHER -> files
             created == IF ff \in {"ok", "raise_partial"} THEN {temp_output} ELSE {}
         IN  IF ff \in {"raise", "raise_partial"}
             THEN [raised |-> FALSE, path |-> input_path, created |-> created,
                   files |-> written]
             ELSE [raised |-> FALSE, path |-> temp_output, created |-> created,
                   files |-> written]

\* WhisperService._preprocess_audio at microsecond u.  raised: an exception
\* leaves the function; path: the returned path; created: the files the
\* tool wrote; files: the Temp folder afterwards.
_preprocess_audio(input_path, files, u, ff) ==
    IF ~FFmpeg
    THEN [raised |-> FALSE, path |-> input_path, created |-> {}, files |-> files]
    ELSE LET temp_output == ScratchName(u)
             written == CASE ff = "ok" -> WriteFile(files, temp_output, "normalized")
                          [] ff = "raise_partial" -> WriteFile(files, temp_output, "partial")
                          [] OTHER -> files
             created == IF ff \in {"ok", "raise_partial"} THEN {temp_output} ELSE {}
         IN  IF ff \in {"raise", "raise_partial"}
             THEN [raised |-> FALSE, path |-> input_path, created |-> created,
                   files |-> written]
             ELSE IF Exists(written, temp_output)
             THEN [raised |-> FALSE, path |-> temp_output, created |-> created,
                   files |-> written]
             ELSE [raised |-> FALSE, path |-> input_path, created |-> created,
                   files |-> written]

\* WhisperService._cleanup_temp_file (every modelled path lies in the Temp
\* folder); rm_ok: os.remove does not raise
_cleanup_temp_file(file_path, files, rm_ok) ==
    IF file_path = NoPath \/ ~Exists(files, file_path)
    THEN files
    ELSE IF rm_ok THEN RemoveFile(files, file_path) ELSE files

-----------------------------------------------------------------------------
(* Floating point: a Python float is an IEEE 754 binary64 number.  A       *)
(* non-negative float below 2^31 is modelled exactly, as its integer part  *)
(* and the sequence of its binary digits after the point.                  *)

\* binary digits of the significand of a float
MantissaBits == 53

\* number of binary digits of the natural number n < 2^30
BitLength(n) == CHOOSE b \in 0..30 : n < 2^b /\ (b = 0 \/ n >= 2^(b - 1))

\* the binary digits of the natural number n < 2^width, most significant
\* first
Binary(n, width) == [i \in 1..width |-> (n \div 2^(width - i)) % 2]

RECURSIVE Value(_)
\* the natural number a short sequence of binary digits stands for
Value(bits) ==
    IF bits = <<>> THEN 0
    ELSE 2 * Value(SubSeq(bits, 1, Len(bits) - 1)) + bits[Len(bits)]

\* binary digits handled in one step of a long division or multiplication
Chunk == 16

\* number of zeros before the first one in a sequence of binary digits
LeadingZeros(bits) ==
    LET ones == {i \in 1..Len(bits) : bits[i] = 1}
    IN  IF ones = {} THEN Len(bits)
        ELSE (CHOOSE i \in ones : \A j \in ones : i <= j) - 1

\* one unit in the last place is added to a sequence of binary digits
Increment(bits) ==
    LET zeros == {i \in 1..Len(bits) : bits[i] = 0}
        p == IF zeros = {} THEN 0
             ELSE CHOOSE i \in zeros : \A j \in zeros : i >= j
    IN  [bits |-> [i \in 1..Len(bits) |->
                     IF i < p THEN bits[i] ELSE IF i = p THEN 1 ELSE 0],
         carry |-> IF p = 0 THEN 1 ELSE 0]

\* the float nearest to the number int + 0.frac, ties to even
RoundToFloat(x) ==
    LET keep == IF x.int > 0
                THEN MantissaBits - BitLength(x.int)
                ELSE LeadingZeros(x.frac) + MantissaBits
    IN  IF Len(x.frac) <= keep
        THEN x
        ELSE LET kept == SubSeq(x.frac, 1, keep)
                 guard == x.frac[keep + 1]
                 sticky == \E i \in (keep + 2)..Len(x.frac) : x.frac[i] = 1
                 lsb == IF keep > 0 THEN kept[keep] ELSE x.int % 2
                 up == Increment(kept)
             IN  IF guard = 1 /\ (sticky \/ lsb = 1)
                 THEN [int |-> x.int + up.carry, frac |-> up.bits]
                 ELSE [int |-> x.int, frac |-> kept]

\* the first 4 * Chunk binary digits of r / d after the point
\* (0 <= r < d <= 1000), followed by one digit that says whether a
\* remainder is left
Expand(r, d) ==
    LET r1 == (r * 2^Chunk) % d
        r2 == (r1 * 2^Chunk) % d
        r3 == (r2 * 2^Chunk) % d
        r4 == (r3 * 2^Chunk) % d
    IN  Binary((r * 2^Chunk) \div d, Chunk)
            \o Binary((r1 * 2^Chunk) \div d, Chunk)
            \o Binary((r2 * 2^Chunk) \div d, Chunk)
            \o Binary((r3 * 2^Chunk) \div d, Chunk)
            \o <<IF r4 = 0 THEN 0 ELSE 1>>

\* the float that stands for the time of k milliseconds: k / 1000
Seconds(k) ==
    RoundToFloat([int |-> k \div 1000, frac |-> Expand(k % 1000, 1000)])

\* float // d for a positive integer d; the result of Python's float
\* floor division is exact here
FloorDiv(x, d) == x.int \div d

\* float % d for a positive integer d; fmod is exact
Mod(x, d) == [int |-> x.int % d, frac |-> x.frac]

RECURSIVE TimesExact(_, _, _)
\* the exact product of 0.bits + c / 2^Len(bits) and the natural number
\* f <= 1000; Len(bits) is a multiple of Chunk
TimesExact(bits, f, c) ==
    LET n == Len(bits)
    IN  IF n = 0
        THEN [int |-> c, frac |-> <<>>]
        ELSE LET t == Value(SubSeq(bits, n - Chunk + 1, n)) * f + c
                 r == TimesExact(SubSeq(bits, 1, n - Chunk), f, t \div 2^Chunk)
             IN  [int |-> r.int, frac |-> r.frac \o Binary(t % 2^Chunk, Chunk)]

\* a sequence of binary digits after the point, lengthened with zeros to a
\* multiple of Chunk
Padded(bits) ==
    [i \in 1..(((Len(bits) + Chunk - 1) \div Chunk) * Chunk) |->
        IF i <= Len(bits) THEN bits[i] ELSE 0]

\* float * f for a float below 1 and a natural number f
Times(x, f) == RoundToFloat(TimesExact(Padded(x.frac), f, 0))

\* int(float)
Truncate(x) == x.int

-----------------------------------------------------------------------------
(* Subtitle formatter: time codes *)

RECURSIVE Decimal(_)
\* str(n) for a natural number n
Decimal(n) == IF n < 10 THEN <<Digit(n)>> ELSE Decimal(n \div 10) \o <<Digit(n % 10)>>

RECURSIVE Value10(_)
\* int(digits) for a sequence of decimal digits
Value10(digits) ==
    IF digits = <<>> THEN 0
    ELSE 10 * Value10(SubSeq(digits, 1, Len(digits) - 1))
            + (CHOOSE n \in 0..9 : Digit(n) = digits[Len(digits)])

\* f"{n:0{width}d}"
ZeroPad(n, width) ==
    LET digits == Decimal(n)
    IN  IF Len(digits) >= width THEN digits
        ELSE [i \in 1..width |->
                IF i <= width - Len(digits) THEN "0"
                ELSE digits[i - (width - Len(digits))]]

\* the body shared by _seconds_to_srt_time and _seconds_to_vtt_time
TimeCode(seconds, separator) ==
    LET hours == FloorDiv(seconds, 3600)
        minutes == FloorDiv(Mod(seconds, 3600), 60)
        secs == Truncate(Mod(seconds, 60))
        millisecs == Truncate(Times(Mod(seconds, 1), 1000))
    IN  ZeroPad(hours, 2) \o <<":">> \o ZeroPad(minutes, 2) \o <<":">>
            \o ZeroPad(secs, 2) \o <<separator>> \o ZeroPad(millisecs, 3)

\* WhisperService._seconds_to_srt_time
_seconds_to_srt_time(seconds) == TimeCode(seconds, ",")

\* WhisperService._seconds_to_vtt_time
_seconds_to_vtt_time(seconds) == TimeCode(seconds, ".")

-----------------------------------------------------------------------------
(* Subtitle formatter: documents *)

NewLine == <<"\n">>

Arrow == <<" ", "-", "-", ">", " ">>

RECURSIVE SrtBlocks(_, _)
\* the loop of _generate_srt_content from the i-th segment on
SrtBlocks(segments, i) ==
    IF i > Len(segments) THEN <<>>
    ELSE LET start_time == _seconds_to_srt_time(segments[i].start)
             end_time == _seconds_to_srt_time(segments[i].end)
         IN  Decimal(i) \o NewLine
                \o start_time \o Arrow \o end_time \o NewLine
                \o segments[i].text \o NewLine \o NewLine
                \o SrtBlocks(segments, i + 1)

\* WhisperService._generate_srt_content
_generate_srt_content(segments) == SrtBlocks(segments, 1)

RECURSIVE VttBlocks(_, _)
\* the loop of _generate_vtt_content from the i-th segment on
VttBlocks(segments, i) ==
    IF i > Len(segments) THEN <<>>
    ELSE LET start_time == _seconds_to_vtt_time(segments[i].start)
             end_time == _seconds_to_vtt_time(segments[i].end)
         IN  start_time \o Arrow \o end_time \o NewLine
                \o segments[i].text \o NewLine \o NewLine
                \o VttBlocks(segments, i + 1)

\* WhisperService._generate_vtt_content
_generate_vtt_content(segments) ==
    <<"W", "E", "B", "V", "T", "T">> \o NewLine \o NewLine
        \o VttBlocks(segments, 1)

-----------------------------------------------------------------------------
(* Transcription engine *)

\* the decoder returns every segment, or raises: in transcribe() or while
\* the segments are iterated (lines 264-282; nothing is written in between)
DecoderOutcomes == {"ok", "raise"}

\* the runtime as it is, nothing loaded by this call
Resident(ret) == Runtime(ret, current_model, current_model_name, config_file, 0)

\* WhisperService.extract_subtitle, lines 239-251: model selection
SelectForExtract(model_name, load_ok, save) ==
    IF model_name # "None" /\ model_name # current_model_name
    THEN _load_model(model_name, load_ok, save)
    ELSE IF current_model = "None"
    THEN _load_model(current_model_name, load_ok, save)
    ELSE Resident(TRUE)

\* the finally block without the comparison with the input path
CleanupAfter_unguarded(preprocessed_file, file_path, files, rm_ok) ==
    IF preprocessed_file # NoPath
    THEN _cleanup_temp_file(preprocessed_file, files, rm_ok)
    ELSE files

\* WhisperService.extract_subtitle, lines 307-310: the finally block
CleanupAfter(preprocessed_file, file_path, files, rm_ok) ==
    IF preprocessed_file # NoPath /\ preprocessed_file # file_path
    THEN _cleanup_temp_file(preprocessed_file, files, rm_ok)
    ELSE files

\* outcomes of open(subtitle_path, 'w') + f.write: the document is written,
\* or an exception is raised before a file is created (the folder is missing
\* or not writable, or SUBTITLES_FOLDER is a plain string from the
\* environment, for which the / of line 433 raises)
WriterOutcomes == {"ok", "raise"}

\* the characters of a format tag
FormatChars(fmt) ==
    CASE fmt = "srt" -> <<"s", "r", "t">>
      [] fmt = "vtt" -> <<"v", "t", "t">>
      [] OTHER -> <<"a", "s", "s">>

\* str.lower() on the values the format setting takes in the model
LowerFormat(fmt) ==
    CASE fmt = "SRT" -> "srt"
      [] fmt = "VTT" -> "vtt"
      [] OTHER -> fmt

\* _save_subtitle_file, lines 429-446, for the output format chosen: the
\* name of the document, its body (of the format whose generator wrote
\* it) and the write
SubtitleDocument(original_file_path, docs, t, sub, output_format) ==
    LET subtitle_path ==
            Stem(original_file_path) \o <<"_">> \o Stamp(t) \o <<".">>
                \o FormatChars(output_format)
        subtitle_content == IF output_format = "vtt" THEN "vtt" ELSE "srt"
    IN  IF sub = "ok"
        THEN [path |-> subtitle_path, written |-> {subtitle_path},
              docs |-> WriteFile(docs, subtitle_path, subtitle_content)]
        ELSE [path |-> NoPath, written |-> {}, docs |-> docs]

\* _save_subtitle_file without the test against the allow-list
_save_subtitle_file_unvalidated(original_file_path, docs, t, sub) ==
    SubtitleDocument(original_file_path, docs, t, sub,
                     LowerFormat(SUBTITLE_OUTPUT_FORMAT))

\* WhisperService._save_subtitle_file at second t of the wall clock.  path:
\* the returned path ("" after an exception); written: the documents the
\* call created or wrote; docs: the Subtitles folder afterwards.  Never
\* raises.
_save_subtitle_file(original_file_path, docs, t, sub) ==
    SubtitleDocument(original_file_path, docs, t, sub,
                     IF LowerFormat(SUBTITLE_OUTPUT_FORMAT) \in SUBTITLE_AVAILABLE_FORMATS
                     THEN LowerFormat(SUBTITLE_OUTPUT_FORMAT) ELSE "vtt")

\* _save_subtitle_file was not called
NoDoc == [path |-> NoPath, written |-> {}, docs |-> subtitles]

\* the texts of the three placeholder segments (stand-ins for the
\* sentences of lines 315-317)
MockTexts == <<<<"t", "1">>, <<"t", "2">>, <<"t", "3">>>>

\* _mock_extract_subtitle, lines 314-318
mock_segments ==
    <<[start |-> Seconds(0), end |-> Seconds(3000), text |-> MockTexts[1]],
      [start |-> Seconds(3000), end |-> Seconds(6000), text |-> MockTexts[2]],
      [start |-> Seconds(6000), end |-> Seconds(9000), text |-> MockTexts[3]]>>

\* _mock_extract_subtitle, line 330: 'duration': 9.0
mock_duration == Seconds(9000)

\* _mock_extract_subtitle with a transcript of two segments
_mock_extract_subtitle_short(file_path, docs, t, sub) ==
    [segments |-> SubSeq(mock_segments, 1, 2), duration |-> {Seconds(6000)},
     doc |-> _save_subtitle_file(file_path, docs, t, sub)]

\* WhisperService._mock_extract_subtitle: 'segments', 'duration' and the
\* document written (a field that a result does not carry is the empty
\* sequence or the empty set)
_mock_extract_subtitle(file_path, docs, t, sub) ==
    [segments |-> mock_segments, duration |-> {mock_duration},
     doc |-> _save_subtitle_file(file_path, docs, t, sub)]

\* the segments of a decoder run that succeeds: one segment of two
\* seconds (what the engine makes of other decoder outputs is the subject
\* of SpecSegments)
DecoderSegments ==
    <<[start |-> Seconds(0), end |-> Seconds(2000), text |-> <<"A">>]>>

\* info.duration of that decoder run
DecoderDuration == Seconds(2000)

\* extract_subtitle, lines 264-296, after the normalizer: 'segments',
\* 'duration' and the document written
Decoded(file_path, docs, t, sub) ==
    [segments |-> DecoderSegments, duration |-> {DecoderDuration},
     doc |-> _save_subtitle_file(file_path, docs, t, sub)]

\* a call that ends without a transcript
NoTranscript == [segments |-> <<>>, duration |-> {}, doc |-> NoDoc]

\* _cleanup_temp_file without its try / except: what os.remove raises leaves
\* the function
_cleanup_temp_file_uncaught(file_path, files, rm_ok) ==
    file_path # NoPath /\ Exists(files, file_path) /\ ~rm_ok

\* an exception leaves _cleanup_temp_file: os.remove raised and the except
\* branch of lines 418-419 did not catch it
_cleanup_temp_file_raises(file_path, files, rm_ok) ==
    LET remove_raises == file_path # NoPath /\ Exists(files, file_path) /\ ~rm_ok
        caught == TRUE
    IN  remove_raises /\ ~caught

\* the model selection of extract_subtitle without the existence test
ModelFor_unchecked(file_path, model_name, load_ok, save) ==
    SelectForExtract(model_name, load_ok, save)

\* extract_subtitle, lines 233-251: the existence test, then the model
\* selection
ModelFor(file_path, model_name, load_ok, save) ==
    IF Exists(temp, file_path)
    THEN SelectForExtract(model_name, load_ok, save)
    ELSE Resident(FALSE)

\* values the request body of the extract-subtitle route may give for
\* model_name: an identifier, null ("None"), or no such key ("Absent")
BodyModelNames == ModelIds \cup {"None", "Absent"}

\* app.py line 180: data.get('model_name', 'base')
RouteModelName(body) == IF body = "Absent" THEN "base" ELSE body

\* WhisperService.extract_subtitle (with _mock_extract_subtitle), called by
\* the extract-subtitle route for a request whose body gave model_name as
\* body (kept in the report only).
\* dec: the decoder returns all segments or raises (in transcribe or while
\* the segments are iterated); sub: what writing the subtitle document does.
\* Each stage of the call is computed once and bound by \E.
extract_subtitle(file_path, model_name, body, load_ok, save, ff, dec, sub, rm_ok) ==
    \E rt \in {ModelFor(file_path, model_name, load_ok, save)} :
    \E norm \in {IF rt.ret /\ WhisperModel
                 THEN _preprocess_audio(file_path, temp, usec, ff)
                 ELSE NoNorm} :
    \E res \in {IF rt.ret /\ ~WhisperModel
                THEN _mock_extract_subtitle(file_path, subtitles, now, sub)
                ELSE IF rt.ret /\ ~norm.raised /\ dec = "ok"
                THEN Decoded(file_path, subtitles, now, sub)
                ELSE NoTranscript} :
    \E after \in {CleanupAfter(IF norm.raised THEN NoPath ELSE norm.path,
                               file_path, norm.files, rm_ok)} :
        LET runs == rt.ret /\ WhisperModel
            mock == rt.ret /\ ~WhisperModel
            preprocessed_file == IF norm.raised THEN NoPath ELSE norm.path
            recognized == IF runs /\ ~norm.raised THEN preprocessed_file ELSE NoPath
            success == rt.ret /\ (WhisperModel => (~norm.raised /\ dec = "ok"))
            cleans == preprocessed_file # NoPath /\ preprocessed_file # file_path
            message ==
                CASE ~Exists(temp, file_path) -> "file_missing"
                  [] ~rt.ret /\ model_name # "None" /\ model_name # current_model_name
                        -> "model_load_failed"
                  [] ~rt.ret -> "default_model_load_failed"
                  [] mock -> "extracted_mock"
                  [] success -> "extracted"
                  [] OTHER -> "extract_failed"
        IN  /\ (runs /\ FFmpeg) => usec < MaxUsec
            /\ \E run \in
                    {[tool |-> IF ~runs THEN "none" ELSE IF FFmpeg THEN ff ELSE "absent",
                      recognized |-> recognized,
                      decoder |-> IF recognized # NoPath THEN dec ELSE "none",
                      remove_raised |-> (cleans /\ ~rm_ok
                                          /\ Exists(norm.files, preprocessed_file)),
                      body |-> body,
                      subtitle_file |-> res.doc.path,
                      written |-> res.doc.written,
                      writer |-> IF success THEN sub ELSE "none",
                      segments |-> res.segments,
                      duration |-> res.duration,
                      message |-> message,
                      propagated |-> (cleans /\ _cleanup_temp_file_raises(
                                                    preprocessed_file, norm.files, rm_ok))]} :
                    last' = Report("extract_subtitle", model_name, file_path,
                                   success, rt, norm, run)
                                @@ [save |-> RecordWrite(rt, save)]
            /\ current_model' = rt.current_model
            /\ current_model_name' = rt.current_model_name
            /\ config_file' = rt.config_file
            /\ temp' = after
            /\ subtitles' = res.doc.docs
            /\ usec' = IF runs /\ FFmpeg THEN usec + 1 ELSE usec
            /\ UNCHANGED <<deployment, stores, th, correlator, SUBTITLE_OUTPUT_FORMAT>>

-----------------------------------------------------------------------------
(* Construction *)

\* __init__ reading the record before it assigns the default identifier:
\* the record written for an absent file names no model
Construct_saves_unset(file, save) ==
    CASE file.state = "ok" ->
            [name |-> file.current_model,
             format |-> IF file.subtitle_output_format \in SUBTITLE_AVAILABLE_FORMATS
                        THEN file.subtitle_output_format ELSE env_format,
             file |-> file]
      [] file.state = "absent" ->
            [name |-> WHISPER_DEFAULT_MODEL, format |-> env_format,
             file |-> _save_config("None", env_format, file, save)]
      [] OTHER ->
            [name |-> WHISPER_DEFAULT_MODEL, format |-> env_format, file |-> file]

\* WhisperService.__init__ with _load_config, on the record found on disk
Construct(file, save) ==
    CASE file.state = "ok" ->
            [name |-> file.current_model,
             format |-> IF file.subtitle_output_format \in SUBTITLE_AVAILABLE_FORMATS
                        THEN file.subtitle_output_format ELSE env_format,
             file |-> file]
      [] file.state = "absent" ->
            [name |-> WHISPER_DEFAULT_MODEL, format |-> env_format,
             file |-> _save_config(WHISPER_DEFAULT_MODEL, env_format, file, save)]
      [] OTHER ->
            [name |-> WHISPER_DEFAULT_MODEL, format |-> env_format, file |-> file]

\* the process is restarted: a new WhisperService is constructed; the report
\* tells what was found in place of the record
Restart(save) ==
    LET c == Construct(config_file, save)
    IN  /\ current_model' = "None"
        /\ current_model_name' = c.name
        /\ SUBTITLE_OUTPUT_FORMAT' = c.format
        /\ config_file' = c.file
        /\ last' = Report("restart", "None", NoPath, TRUE,
                          Runtime(TRUE, "None", c.name, c.file, 0),
                          NoNorm, NoRun)
                        @@ [found |-> config_file.state]
        /\ UNCHANGED <<deployment, stores, th, subtitles, correlator, temp, usec>>

-----------------------------------------------------------------------------
(* Request threads *)

Threads == 1..MaxThreads

\* a thread that is in no call of the service
Idle == [pc |-> "idle", op |-> "none", model_name |-> "None",
         target |-> "None", handle_used |-> "None", file_path |-> NoPath,
         preprocessed_file |-> NoPath, success |-> FALSE,
         model_used |-> "None"]

-----------------------------------------------------------------------------
(* Specification of the serialized service: one call at a time *)

\* an upload of a.mp4 stored at second 0
UploadA == StoredName(<<"a">> \o MP4, Stamp(0))

\* a path that names no file
MissingPath == <<"x">> \o MP4

\* the Temp folder at start holds one upload
InitialTemps == {WriteFile(EmptyDir, UploadA, "media")}

\* the paths the calls name: the upload and a path that names no file
InputPaths == {UploadA, MissingPath}

\* the format the environment configures at start: unset, so the default
InitialFormats == {"vtt"}

\* the record found on disk at start: none, an unreadable one, or one
\* written by an earlier process
InitialFiles ==
    {AbsentFile, CorruptFile} \cup {RecordFile(m, "srt") : m \in ModelIds}

Init ==
    \E wm \in BOOLEAN, ff \in BOOLEAN, ef \in InitialFormats,
       file \in InitialFiles, t \in InitialTemps :
    \E save \in (IF file.state = "absent" THEN SaveOutcomes ELSE {"ok"}) :
        /\ WhisperModel = wm
        /\ FFmpeg = ff
        /\ StoresAtRest
        /\ env_format = ef
        /\ current_model = "None"
        /\ current_model_name = Construct(file, save).name
        /\ SUBTITLE_OUTPUT_FORMAT = Construct(file, save).format
        /\ config_file = Construct(file, save).file
        /\ temp = t
        /\ usec = 0
        /\ now = 0
        /\ issued = {}
        /\ subtitles = EmptyDir
        /\ th = [i \in Threads |-> Idle]
        /\ last = Report("init", "None", NoPath, TRUE,
                         Runtime(TRUE, "None", Construct(file, save).name,
                                 Construct(file, save).file, 0),
                         [raised |-> FALSE, path |-> NoPath, created |-> {},
                          files |-> t],
                         NoRun)

\* The outcomes of the external operations (model constructor, record
\* write, normalization tool, decoder, os.remove) are drawn only for the
\* operations a call reaches; an operation that is not reached keeps its
\* no-fault outcome, so that no call is enumerated twice.
Outcomes(reached, all, none) == IF reached THEN all ELSE {none}

SelectModel ==
    \E m \in ModelIds :
        LET loads == m \in WHISPER_AVAILABLE_MODELS
                        /\ _load_model(m, TRUE, "ok").loads = 1
        IN  \E load_ok \in Outcomes(loads, BOOLEAN, TRUE) :
            \E save \in Outcomes(loads /\ load_ok, SaveOutcomes, "ok") :
                select_model(m, load_ok, save)

ExtractSubtitle ==
    \E p \in InputPaths, body \in BodyModelNames :
        LET m == RouteModelName(body)
            loads == Exists(temp, p) /\ SelectForExtract(m, TRUE, "ok").loads = 1
            runs == Exists(temp, p) /\ WhisperModel
        IN  \E load_ok \in Outcomes(loads, BOOLEAN, TRUE) :
            \E save \in Outcomes(loads /\ load_ok, SaveOutcomes, "ok") :
            \E dec \in Outcomes(runs /\ load_ok, DecoderOutcomes, "ok") :
            \E sub \in Outcomes(Exists(temp, p) /\ load_ok /\ dec = "ok",
                                WriterOutcomes, "ok") :
            \E ff \in Outcomes(runs /\ load_ok /\ FFmpeg, ToolOutcomes, "ok") :
            \E rm_ok \in Outcomes(runs /\ load_ok /\ FFmpeg /\ ff = "ok", BOOLEAN, TRUE) :
                extract_subtitle(p, m, body, load_ok, save, ff, dec, sub, rm_ok)

RestartService ==
    \E save \in (IF config_file.state = "absent" THEN SaveOutcomes ELSE {"ok"}) :
        Restart(save)

Next == SelectModel \/ ExtractSubtitle \/ RestartService

Spec == Init /\ [][Next]_vars

-----------------------------------------------------------------------------
(* Claims about the model runtime *)

\* the step is a call that reached the load/switch operation with a
\* requested identifier
EnsureLoadedCall(r, files) ==
    \/ r.op = "select_model" /\ r.model_name \in WHISPER_AVAILABLE_MODELS
    \/ r.op = "extract_subtitle" /\ r.model_name # "None" /\ Exists(files, r.file_path)

\* C1: with the recognition backend available and the load succeeding, a
\* call of the load/switch operation with identifier id constructs the
\* model exactly when id differs from the identifier of the resident handle
\* (no handle counts as different); and with 'base' resident, switching to
\* 'large-v3-turbo' and back to 'base' in two successive calls constructs
\* exactly two models.
C1_NoReload ==
    [][/\ (WhisperModel /\ EnsureLoadedCall(last', temp) /\ ~last'.load_raised)
            => last'.loads = (IF current_model # last'.model_name THEN 1 ELSE 0)
       /\ (/\ WhisperModel
           /\ last.op = "select_model" /\ last.success
           /\ last.resident_before = "base"
           /\ last.model_name = "large-v3-turbo"
           /\ last'.op = "select_model" /\ last'.success
           /\ last'.model_name = "base")
            => last.loads + last'.loads = 2]_vars

\* C1 witness: the switch back to 'base' from a resident 'large-v3-turbo'
\* handle constructed one model
C1_Witness ==
    /\ WhisperModel
    /\ last.op = "select_model" /\ last.success
    /\ last.model_name = "base"
    /\ last.resident_before = "large-v3-turbo"
    /\ last.loads = 1
    /\ current_model = "base"

\* C2: when the constructor raises, the handle, the current identifier and
\* the persisted record are as before the call, the constructor was called
\* once, and the call reports failure.
C2_LoadFailureKeepsState ==
    [][last'.load_raised
        => /\ current_model' = current_model
           /\ current_model_name' = current_model_name
           /\ config_file' = config_file
           /\ last'.loads = 1
           /\ ~last'.success]_vars

\* C2 witness: a load failed while a handle of another model was resident
C2_Witness ==
    /\ last.load_raised
    /\ last.op = "select_model"
    /\ current_model # "None"
    /\ current_model # last.model_name

\* C4 (as claimed): whenever select_model(id) reports success, the current
\* identifier is id, the persisted record names id as current_model, and a
\* runtime constructed afterwards starts with identifier id.
C4_SelectSuccessPersists ==
    [][(last'.op = "select_model" /\ last'.success)
        => /\ current_model_name' = last'.model_name
           /\ config_file'.state = "ok"
           /\ config_file'.current_model = last'.model_name
           /\ Construct(config_file', "ok").name = last'.model_name]_vars

\* C5 (as claimed): a request naming an identifier outside the static
\* registry is rejected with a failure result, calls no constructor, and
\* leaves the handle, the identifier and the persisted record unchanged.
C5_UnregisteredRejected ==
    [][(/\ last'.op \in {"select_model", "extract_subtitle"}
        /\ last'.model_name \notin WHISPER_AVAILABLE_MODELS \cup {"None"})
        => /\ ~last'.success
           /\ last'.loads = 0
           /\ current_model' = current_model
           /\ current_model_name' = current_model_name
           /\ config_file' = config_file]_vars

C28_HandleNameRecord ==
    [][last'.op \in {"select_model", "extract_subtitle"}
        => /\ current_model' # "None" => current_model_name' = current_model'
           /\ IF last'.loads = 1 /\ ~last'.load_raised
              THEN last'.save = "ok"
                    => /\ config_file'.state = "ok"
                       /\ config_file'.current_model = current_model_name'
              ELSE /\ current_model_name' = current_model_name
                   /\ config_file' = config_file]_vars

\* C28 witness: an extract_subtitle call replaced the resident handle by
\* the one of another model and the record names that model
C28_Witness ==
    /\ last.op = "extract_subtitle"
    /\ last.loads = 1
    /\ last.save = "ok"
    /\ last.resident_before \notin {"None", current_model}
    /\ current_model_name = current_model
    /\ config_file.current_model = current_model_name

-----------------------------------------------------------------------------
(* Claims about the normalizer and its scratch files *)

\* C6 (as claimed, and granting that os.remove itself does not raise): no
\* normalization file created during an extract_subtitle call exists once
\* the call has returned.
C6_ScratchRemoved ==
    [][(last'.op = "extract_subtitle" /\ ~last'.remove_raised)
        => \A f \in last'.created : ~Exists(temp', f)]_vars

\* C7: extract_subtitle neither deletes nor modifies the input file,
\* whatever the normalizer did.
C7_InputKept ==
    [][(last'.op = "extract_subtitle" /\ Exists(temp, last'.file_path))
        => /\ Exists(temp', last'.file_path)
           /\ temp'[last'.file_path] = temp[last'.file_path]]_vars

\* C7 witness: a scratch file was produced in the Temp folder of the upload
\* and removed, and the upload is still there
C7_Witness ==
    /\ last.op = "extract_subtitle"
    /\ last.tool = "ok"
    /\ last.normalized # last.file_path
    /\ ~Exists(temp, last.normalized)
    /\ Exists(temp, last.file_path)

\* C8: the normalizer never raises; it returns the input path when the
\* capability is absent, when the tool fails and when the tool ends
\* without an output file, and otherwise a newly created scratch path that
\* differs from the input.  In the pass-through cases the decoder runs on
\* the input file and the call succeeds whenever the decoder does.
C8_NormalizerTotal ==
    [][(last'.op = "extract_subtitle" /\ last'.tool # "none")
        => /\ ~last'.normalizer_raised
           /\ last'.tool \in {"absent", "raise", "raise_partial", "no_output"}
                => /\ last'.normalized = last'.file_path
                   /\ last'.recognized = last'.file_path
                   /\ last'.decoder = "ok" => last'.success
           /\ last'.tool = "ok"
                => /\ last'.normalized # last'.file_path
                   /\ ~Exists(temp, last'.normalized)
                   /\ last'.normalized \in last'.created
                   /\ last'.recognized = last'.normalized]_vars

\* C8 witness: the tool failed, the decoder ran on the input file and the
\* call succeeded
C8_Witness ==
    /\ last.op = "extract_subtitle"
    /\ last.tool \in {"raise", "raise_partial"}
    /\ last.recognized = last.file_path
    /\ last.success

-----------------------------------------------------------------------------
(* Claims about the results of extract_subtitle *)

\* C13: select_model and extract_subtitle are total.  Whatever the loader,
\* the normalizer, the decoder, the subtitle writer or the scratch cleanup
\* does, the call ends with a result record that carries a success flag
\* and a message and no exception leaves it; when the decoder fails the
\* record says success = false and no subtitle document is written.
C13_Total ==
    [][last'.op \in {"select_model", "extract_subtitle"}
        => /\ ~last'.propagated
           /\ last'.success \in BOOLEAN
           /\ last'.message # "none"
           /\ last'.decoder = "raise"
                => /\ ~last'.success
                   /\ last'.written = {}
                   /\ subtitles' = subtitles]_vars

\* a call in which the decoder failed, and whose scratch file could not be
\* removed either
C13_Witness ==
    /\ last.op = "extract_subtitle"
    /\ last.decoder = "raise"
    /\ last.remove_raised
    /\ ~last.success

\* C14: extract_subtitle on a path that names no file reports failure and
\* has no effect: no model is loaded, no scratch file and no subtitle
\* document is created, the runtime and the record on disk are unchanged;
\* in placeholder mode as well.
C14_MissingFileNoEffect ==
    [][(last'.op = "extract_subtitle" /\ ~Exists(temp, last'.file_path))
        => /\ ~last'.success
           /\ last'.loads = 0
           /\ last'.created = {}
           /\ last'.written = {}
           /\ UNCHANGED <<current_model, current_model_name, config_file,
                          SUBTITLE_OUTPUT_FORMAT, temp, subtitles>>]_vars

\* a call on the missing path that named a model other than the current
\* one, in placeholder mode
C14_Witness ==
    /\ last.op = "extract_subtitle"
    /\ last.file_path = MissingPath
    /\ last.message = "file_missing"
    /\ last.model_name \in WHISPER_AVAILABLE_MODELS
    /\ last.model_name # current_model_name
    /\ ~WhisperModel

\* C15 (as claimed): a request that names no model runs on the current
\* model and never switches it, for the service call and for the route
\* whose request body omits model_name.
C15_NoModelNoSwitch ==
    [][(last'.op = "extract_subtitle" /\ last'.body \in {"None", "Absent"})
        => /\ current_model_name' = current_model_name
           /\ last'.loads = 1 => current_model = "None"]_vars

\* C16 (as claimed): a successful extract_subtitle that was given a model
\* identifier reports that identifier as the model used.
C16_ModelUsedIsRequested ==
    [][(last'.op = "extract_subtitle" /\ last'.model_name # "None"
            /\ last'.success)
        => last'.model_used = last'.model_name]_vars

\* C17 (as claimed): a successful extract_subtitle wrote exactly one
\* subtitle document and reports its non-empty path.
C17_SuccessHasDocument ==
    [][(last'.op = "extract_subtitle" /\ last'.success)
        => /\ Cardinality(last'.written) = 1
           /\ last'.subtitle_file # NoPath
           /\ last'.subtitle_file \in last'.written
           /\ Exists(subtitles', last'.subtitle_file)]_vars

\* the times 0.0, 3.0, 6.0 and 9.0
PlaceholderTimes == <<Seconds(0), Seconds(3000), Seconds(6000), Seconds(9000)>>

-----------------------------------------------------------------------------
(* File correlator and upload store *)

IsFile(files, n) == files[n] # "dir"

\* one listing of the entries of the folder
Listing(files) ==
    LET S == DOMAIN files
    IN  CHOOSE o \in [1..Cardinality(S) -> S] : \A n \in S : \E i \in DOMAIN o : o[i] = n

\* Path.glob('*'): the entries of the folder in directory order, which is
\* arbitrary.  The orders drawn are the rotations of one listing: each entry
\* comes first in one of them, and among the entries that pass a test each
\* comes first in one of them, which is all a first-match scan depends on.
ScanOrders(files) ==
    LET o == Listing(files)
        n == Len(o)
    IN  IF n = 0 THEN {<<>>}
        ELSE {[i \in 1..n |-> o[((i + k - 1) % n) + 1]] : k \in 0..(n - 1)}

\* find_file_by_id without the is_file() tests
find_file_by_id_any_entry(file_id, files, scan1, scan2) ==
    LET IsExact(n) == Stem(n) = file_id
        IsPrefix(n) == StartsWith(Stem(n), file_id)
        exact == SelectSeq(scan1, IsExact)
        fuzzy == SelectSeq(scan2, IsPrefix)
    IN  IF exact # <<>> THEN Head(exact)
        ELSE IF fuzzy # <<>> THEN Head(fuzzy)
        ELSE NoPath

\* find_file_by_id with the prefix test in the first pass
find_file_by_id_one_pass(file_id, files, scan1, scan2) ==
    LET IsPrefix(n) == IsFile(files, n) /\ StartsWith(Stem(n), file_id)
        fuzzy == SelectSeq(scan1, IsPrefix)
    IN  IF fuzzy # <<>> THEN Head(fuzzy) ELSE NoPath

\* FileUtils.find_file_by_id; scan1 and scan2 are the orders in which the
\* two passes list the folder
find_file_by_id(file_id, files, scan1, scan2) ==
    LET IsExact(n) == IsFile(files, n) /\ Stem(n) = file_id
        IsPrefix(n) == IsFile(files, n) /\ StartsWith(Stem(n), file_id)
        exact == SelectSeq(scan1, IsExact)
        fuzzy == SelectSeq(scan2, IsPrefix)
    IN  IF exact # <<>> THEN Head(exact)
        ELSE IF fuzzy # <<>> THEN Head(fuzzy)
        ELSE NoPath

\* FileUtils.save_uploaded_file: write_ok is FALSE when open/write raises
save_uploaded_file(filename, timestamp, files, write_ok) ==
    LET file_path == StoredName(filename, timestamp)
        writable == write_ok /\ (Exists(files, file_path) => IsFile(files, file_path))
    IN  IF ~writable
        THEN [success |-> FALSE, file_path |-> NoPath, files |-> files]
        ELSE [success |-> validate_file(file_path), file_path |-> file_path,
              files |-> WriteFile(files, file_path, "media")]

\* report of a call of the upload store
FileReport(op, file_id, success, result) ==
    [op |-> op, file_id |-> file_id, success |-> success, result |-> result]

\* app.py upload_file; filename is what secure_filename returned
upload_file(filename, write_ok) ==
    LET timestamp == Stamp(now)
        result == save_uploaded_file(filename, timestamp, temp, write_ok)
        file_id == SplitExt(filename).root \o <<"_">> \o timestamp
    IN  /\ Cardinality(DOMAIN result.files) <= MaxFiles
        /\ temp' = result.files
        /\ issued' = IF result.success
                     THEN issued \cup {[file_id |-> file_id, path |-> result.file_path]}
                     ELSE issued
        /\ last' = FileReport("upload", IF result.success THEN file_id ELSE NoPath,
                              result.success, result.file_path)
        /\ UNCHANGED <<deployment, stores, th, subtitles, current_model, current_model_name,
                       SUBTITLE_OUTPUT_FORMAT, config_file, usec, now>>

\* FileUtils.delete_file: rm_ok is FALSE when os.remove raises
delete_file(file_path, files, rm_ok) ==
    IF Exists(files, file_path) /\ rm_ok
    THEN [ret |-> TRUE, files |-> RemoveFile(files, file_path)]
    ELSE [ret |-> FALSE, files |-> files]

\* app.py delete_file route
delete_file_route(file_id, scan1, scan2, rm_ok) ==
    LET file_path == find_file_by_id(file_id, temp, scan1, scan2)
        result == IF file_path = NoPath
                  THEN [ret |-> FALSE, files |-> temp]
                  ELSE delete_file(file_path, temp, rm_ok)
    IN  /\ temp' = result.files
        /\ issued' = {u \in issued : Exists(result.files, u.path)}
        /\ last' = FileReport("delete", file_id, result.ret, file_path)
        /\ UNCHANGED <<deployment, stores, th, subtitles, current_model, current_model_name,
                       SUBTITLE_OUTPUT_FORMAT, config_file, usec, now>>

\* the lookup at the head of the extract-subtitle route (app.py 184-191)
resolve(file_id, scan1, scan2) ==
    /\ last' = FileReport("resolve", file_id,
                          find_file_by_id(file_id, temp, scan1, scan2) # NoPath,
                          find_file_by_id(file_id, temp, scan1, scan2))
    /\ UNCHANGED <<deployment, stores, th, subtitles, current_model, current_model_name,
                   SUBTITLE_OUTPUT_FORMAT, config_file, usec, now, temp, issued>>

\* the wall clock reaches the next second
Tick ==
    /\ now < MaxNow
    /\ now' = now + 1
    /\ UNCHANGED <<deployment, stores, th, subtitles, current_model, current_model_name,
                   SUBTITLE_OUTPUT_FORMAT, config_file, usec, temp, issued, last>>

\* a file name of more than 100 characters: 97 letters and .mp4
LongName == [i \in 1..97 |-> "a"] \o MP4

\* names secure_filename hands to the upload route: two media files with the
\* same stem, a copy of a stored upload, a long name, a name without
\* extension
UploadNames ==
    {<<"a">> \o MP4, <<"a">> \o MP3, UploadA, LongName, <<"m", "p", "4">>}

\* identifiers a client may send: the ones uploads returned, an identifier
\* of the older format (a bare stem) and one that names nothing
LookupIds == {u.file_id : u \in issued} \cup {<<"a">>, <<"z">>}

InitFiles ==
    /\ WhisperModel = FALSE
    /\ FFmpeg = FALSE
    /\ StoresAtRest
    /\ env_format = "vtt"
    /\ current_model = "None"
    /\ current_model_name = WHISPER_DEFAULT_MODEL
    /\ SUBTITLE_OUTPUT_FORMAT = "vtt"
    /\ config_file = RecordFile(WHISPER_DEFAULT_MODEL, "vtt")
    /\ temp \in {EmptyDir, WriteFile(EmptyDir, <<"a">>, "dir")}
    /\ usec = 0
    /\ now = 0
    /\ issued = {}
    /\ subtitles = EmptyDir
    /\ th = [t \in Threads |-> Idle]
    /\ last = FileReport("init", NoPath, TRUE, NoPath)

UploadFile ==
    \E filename \in UploadNames, write_ok \in BOOLEAN : upload_file(filename, write_ok)

\* the second pass lists the folder only when the first one found nothing
SecondScans(file_id, scan1) ==
    IF find_file_by_id(file_id, temp, scan1, scan1) # NoPath
          /\ Stem(find_file_by_id(file_id, temp, scan1, scan1)) = file_id
    THEN {scan1}
    ELSE ScanOrders(temp)

DeleteFile ==
    \E file_id \in LookupIds, scan1 \in ScanOrders(temp) :
    \E scan2 \in SecondScans(file_id, scan1) :
    \E rm_ok \in Outcomes(find_file_by_id(file_id, temp, scan1, scan2) # NoPath,
                          BOOLEAN, TRUE) :
        delete_file_route(file_id, scan1, scan2, rm_ok)

Resolve ==
    \E file_id \in LookupIds, scan1 \in ScanOrders(temp) :
    \E scan2 \in SecondScans(file_id, scan1) :
        resolve(file_id, scan1, scan2)

NextFiles == UploadFile \/ DeleteFile \/ Resolve \/ Tick

SpecFiles == InitFiles /\ [][NextFiles]_vars

\* C9: whenever a regular file of the Temp folder has a stem equal to id,
\* find_file_by_id returns such a file, whatever the scan order and however
\* many files have id as a proper prefix of their stem; a file whose stem
\* differs from id is returned only when no file has stem id.
C9_ExactMatchWins ==
    last.op = "resolve" =>
        LET exact == {n \in DOMAIN temp : IsFile(temp, n) /\ Stem(n) = last.file_id}
        IN  /\ exact # {} => last.result \in exact
            /\ (last.result # NoPath /\ last.result \notin exact) => exact = {}

\* C9 witness: the file with stem id was returned although another file has
\* id as a proper prefix of its stem
C9_Witness ==
    /\ last.op = "resolve"
    /\ last.result # NoPath
    /\ Stem(last.result) = last.file_id
    /\ \E n \in DOMAIN temp :
        /\ IsFile(temp, n)
        /\ Stem(n) # last.file_id
        /\ StartsWith(Stem(n), last.file_id)

\* C10 (as claimed): find_file_by_id of the file_id a successful upload
\* returned gives the stored path of that upload while that file exists.
C10_UploadResolves ==
    last.op = "resolve" =>
        \A u \in issued :
            (u.file_id = last.file_id /\ Exists(temp, u.path)) => last.result = u.path

-----------------------------------------------------------------------------
(* Specification of the threaded server: app.run serves each request in a  *)
(* thread of its own, and the routes call the one WhisperService without a *)
(* lock.  A step is one statement of _load_model or extract_subtitle; the  *)
(* statements of one call are taken in program order, those of different   *)
(* calls in any order.  The recognition backend is installed and the       *)
(* normalization capability is not, so the decoder reads the input file.   *)

\* report of a call that returned
CallReport(op, model_name, success, handle_used, model_used) ==
    [op |-> op, model_name |-> model_name, success |-> success,
     handle_used |-> handle_used, model_used |-> model_used]

\* thread t returns from its call
Return(t, success, handle_used, model_used) ==
    /\ th' = [th EXCEPT ![t] = Idle]
    /\ last' = CallReport(th[t].op, th[t].model_name, success, handle_used,
                          model_used)

\* extract_subtitle, lines 255-261, after the model selection: with the
\* normalization capability the call enters _preprocess_audio, without it
\* _preprocess_audio returns the input path and the decoder is next
Selected(call) ==
    IF FFmpeg
    THEN [call EXCEPT !.pc = "preprocess"]
    ELSE [call EXCEPT !.pc = "transcribe", !.preprocessed_file = call.file_path]

\* extract_subtitle, lines 307-310: the finally block of thread t, entered
\* with the result the call is about to return
Finally(t, success, handle_used, model_used) ==
    IF th[t].preprocessed_file # NoPath /\ th[t].preprocessed_file # th[t].file_path
    THEN /\ th' = [th EXCEPT ![t].pc = "cleanup", ![t].success = success,
                             ![t].handle_used = handle_used,
                             ![t].model_used = model_used]
         /\ last' = last
    ELSE Return(t, success, handle_used, model_used)

\* _load_model returned True in thread t: select_model returns its success
\* record, extract_subtitle goes on to the normalizer and the decoder
Loaded(t) ==
    IF th[t].op = "select_model"
    THEN Return(t, TRUE, "None", "None")
    ELSE /\ th' = [th EXCEPT ![t] = Selected(th[t])]
         /\ last' = last

\* select_model, lines 202-209: the registry test and the call of _load_model
select_model_call(t, model_name) ==
    /\ th[t].pc = "idle"
    /\ IF model_name \notin WHISPER_AVAILABLE_MODELS
       THEN /\ last' = CallReport("select_model", model_name, FALSE, "None", "None")
            /\ th' = th
       ELSE /\ th' = [th EXCEPT ![t] = [Idle EXCEPT !.pc = "load",
                                                    !.op = "select_model",
                                                    !.model_name = model_name,
                                                    !.target = model_name]]
            /\ last' = last
    /\ UNCHANGED <<deployment, stores, correlator, subtitles, current_model, current_model_name,
                   SUBTITLE_OUTPUT_FORMAT, config_file, temp, usec>>

\* extract_subtitle, lines 233-251: the tests that choose the model
extract_subtitle_call(t, file_path, model_name) ==
    /\ th[t].pc = "idle"
    /\ Exists(temp, file_path)
    /\ LET call == [Idle EXCEPT !.pc = "load", !.op = "extract_subtitle",
                                 !.model_name = model_name,
                                 !.target = model_name,
                                 !.file_path = file_path]
       IN  th' = [th EXCEPT ![t] =
                    IF model_name # "None" /\ model_name # current_model_name
                    THEN call
                    ELSE IF current_model = "None"
                    THEN [call EXCEPT !.target = current_model_name]
                    ELSE Selected([call EXCEPT !.target = "None"])]
    /\ UNCHANGED <<deployment, stores, correlator, subtitles, current_model, current_model_name,
                   SUBTITLE_OUTPUT_FORMAT, config_file, temp, usec, last>>

\* _load_model, lines 82-88: the two early returns
load_model_guard(t) ==
    /\ th[t].pc = "load"
    /\ IF ~WhisperModel
            \/ (current_model # "None" /\ current_model_name = th[t].target)
       THEN Loaded(t)
       ELSE /\ th' = [th EXCEPT ![t].pc = "construct"]
            /\ last' = last
    /\ UNCHANGED <<deployment, stores, correlator, subtitles, current_model, current_model_name,
                   SUBTITLE_OUTPUT_FORMAT, config_file, temp, usec>>

\* _load_model, lines 98 and 109: self.current_model = WhisperModel(...),
\* or the constructor raises and the except branch returns False
load_model_construct(t, load_ok) ==
    /\ th[t].pc = "construct"
    /\ IF load_ok
       THEN /\ current_model' = th[t].target
            /\ th' = [th EXCEPT ![t].pc = "name"]
            /\ last' = last
       ELSE /\ current_model' = current_model
            /\ Return(t, FALSE, "None", "None")
    /\ UNCHANGED <<deployment, stores, correlator, subtitles, current_model_name,
                   SUBTITLE_OUTPUT_FORMAT, config_file, temp, usec>>

\* _load_model, line 118: self.current_model_name = model_name
load_model_assign_name(t) ==
    /\ th[t].pc = "name"
    /\ current_model_name' = th[t].target
    /\ th' = [th EXCEPT ![t].pc = "save"]
    /\ UNCHANGED <<deployment, stores, correlator, subtitles, current_model,
                   SUBTITLE_OUTPUT_FORMAT, config_file, temp, usec, last>>

\* _load_model, lines 119-122: _save_config writes the identifier it reads
\* from the runtime, and _load_model returns True
load_model_save(t, save) ==
    /\ th[t].pc = "save"
    /\ config_file' = _save_config(current_model_name, SUBTITLE_OUTPUT_FORMAT,
                                   config_file, save)
    /\ Loaded(t)
    /\ UNCHANGED <<deployment, stores, correlator, subtitles, current_model, current_model_name,
                   SUBTITLE_OUTPUT_FORMAT, temp, usec>>

\* _preprocess_audio, lines 356-357: the scratch path is named after the
\* microsecond the clock shows
preprocess_stamp(t) ==
    /\ th[t].pc = "preprocess"
    /\ th' = [th EXCEPT ![t].pc = "ffmpeg",
                        ![t].preprocessed_file = ScratchName(usec)]
    /\ UNCHANGED <<deployment, stores, correlator, subtitles, current_model, current_model_name,
                   SUBTITLE_OUTPUT_FORMAT, config_file, temp, usec, last>>

\* _preprocess_audio, lines 379-393: ff.run() writes the scratch path (-y
\* overwrites a file that is there), and the function returns the scratch
\* path or, on failure, the input path
preprocess_run(t, ff) ==
    /\ th[t].pc = "ffmpeg"
    /\ LET temp_output == th[t].preprocessed_file
           written == CASE ff = "ok" -> WriteFile(temp, temp_output, "normalized")
                        [] ff = "raise_partial" -> WriteFile(temp, temp_output, "partial")
                        [] OTHER -> temp
       IN  /\ temp' = written
           /\ th' = [th EXCEPT ![t].pc = "transcribe",
                               ![t].preprocessed_file =
                                    IF ff \notin {"raise", "raise_partial"}
                                         /\ Exists(written, temp_output)
                                    THEN temp_output ELSE th[t].file_path]
    /\ UNCHANGED <<deployment, stores, correlator, subtitles, current_model, current_model_name,
                   SUBTITLE_OUTPUT_FORMAT, config_file, usec, last>>

\* extract_subtitle, lines 264-285: self.current_model.transcribe(...) on the
\* handle the runtime holds at that moment and on the file the normalizer
\* returned, and the iteration of the segments
extract_transcribe(t, dec) ==
    /\ th[t].pc = "transcribe"
    /\ IF current_model = "None" \/ dec = "raise"
            \/ ~Exists(temp, th[t].preprocessed_file)
       THEN Finally(t, FALSE, current_model, "None")
       ELSE /\ th' = [th EXCEPT ![t].pc = "result", ![t].handle_used = current_model]
            /\ last' = last
    /\ UNCHANGED <<deployment, stores, correlator, subtitles, current_model, current_model_name,
                   SUBTITLE_OUTPUT_FORMAT, config_file, temp, usec>>

\* extract_subtitle, lines 285-299: the subtitle document is written and
\* the result record is built with 'model_used': self.current_model_name
extract_result(t) ==
    /\ th[t].pc = "result"
    /\ subtitles' = _save_subtitle_file(th[t].file_path, subtitles, now, "ok").docs
    /\ Finally(t, TRUE, th[t].handle_used, current_model_name)
    /\ UNCHANGED <<deployment, stores, correlator, current_model, current_model_name,
                   SUBTITLE_OUTPUT_FORMAT, config_file, temp, usec>>

\* extract_subtitle, lines 307-310: _cleanup_temp_file on the scratch path,
\* then the call returns
extract_cleanup(t, rm_ok) ==
    /\ th[t].pc = "cleanup"
    /\ temp' = _cleanup_temp_file(th[t].preprocessed_file, temp, rm_ok)
    /\ Return(t, th[t].success, th[t].handle_used, th[t].model_used)
    /\ UNCHANGED <<deployment, stores, correlator, subtitles, current_model, current_model_name,
                   SUBTITLE_OUTPUT_FORMAT, config_file, usec>>

InitConc ==
    \E file \in InitialFiles, t \in InitialTemps :
        /\ WhisperModel = TRUE
        /\ FFmpeg = FALSE
        /\ StoresAtRest
        /\ env_format = "vtt"
        /\ current_model = "None"
        /\ current_model_name = Construct(file, "ok").name
        /\ SUBTITLE_OUTPUT_FORMAT = Construct(file, "ok").format
        /\ config_file = Construct(file, "ok").file
        /\ temp = t
        /\ usec = 0
        /\ now = 0
        /\ issued = {}
        /\ subtitles = EmptyDir
        /\ th = [i \in Threads |-> Idle]
        /\ last = CallReport("init", "None", TRUE, "None", "None")

SelectModelCall ==
    \E t \in Threads, m \in ModelIds : select_model_call(t, m)

ExtractSubtitleCall ==
    \E t \in Threads, p \in DOMAIN temp, m \in WHISPER_AVAILABLE_MODELS \cup {"None"} :
        extract_subtitle_call(t, p, m)

LoadModelGuard == \E t \in Threads : load_model_guard(t)

LoadModelConstruct ==
    \E t \in Threads, load_ok \in BOOLEAN : load_model_construct(t, load_ok)

LoadModelAssignName == \E t \in Threads : load_model_assign_name(t)

LoadModelSave ==
    \E t \in Threads, save \in SaveOutcomes : load_model_save(t, save)

ExtractTranscribe ==
    \E t \in Threads, dec \in DecoderOutcomes : extract_transcribe(t, dec)

ExtractResult == \E t \in Threads : extract_result(t)

NextConc ==
    \/ SelectModelCall
    \/ ExtractSubtitleCall
    \/ LoadModelGuard
    \/ LoadModelConstruct
    \/ LoadModelAssignName
    \/ LoadModelSave
    \/ ExtractTranscribe
    \/ ExtractResult

SpecConc == InitConc /\ [][NextConc]_vars

\* C3 (as claimed): the handle and the identifier are replaced together, so
\* a transcription that succeeded ran on the handle of the model its result
\* names as model_used.
C3_HandleMatchesModelUsed ==
    (last.op = "extract_subtitle" /\ last.success)
        => last.handle_used = last.model_used

-----------------------------------------------------------------------------
(* Specification of concurrent normalizations: the threaded server with    *)
(* the normalization capability installed.  A first call has loaded the    *)
(* default model; the requests name no model, so none is loaded again.     *)
(* The microsecond clock advances on its own: two reads between which it   *)
(* did not advance return the same time stamp.                             *)

InitNorm ==
    \E t \in InitialTemps :
        /\ WhisperModel = TRUE
        /\ FFmpeg = TRUE
        /\ StoresAtRest
        /\ env_format = "vtt"
        /\ current_model = WHISPER_DEFAULT_MODEL
        /\ current_model_name = WHISPER_DEFAULT_MODEL
        /\ SUBTITLE_OUTPUT_FORMAT = "vtt"
        /\ config_file = RecordFile(WHISPER_DEFAULT_MODEL, "vtt")
        /\ temp = t
        /\ usec = 0
        /\ now = 0
        /\ issued = {}
        /\ subtitles = EmptyDir
        /\ th = [i \in Threads |-> Idle]
        /\ last = CallReport("select_model", WHISPER_DEFAULT_MODEL, TRUE, "None",
                             "None")

\* a request that names no model
ExtractCurrentCall ==
    \E t \in Threads, p \in InputPaths : extract_subtitle_call(t, p, "None")

PreprocessStamp == \E t \in Threads : preprocess_stamp(t)

PreprocessRun == \E t \in Threads, ff \in ToolOutcomes : preprocess_run(t, ff)

ExtractCleanup == \E t \in Threads, rm_ok \in BOOLEAN : extract_cleanup(t, rm_ok)

\* the microsecond clock advances
ClockUsec ==
    /\ usec < MaxUsec
    /\ usec' = usec + 1
    /\ UNCHANGED <<deployment, stores, correlator, subtitles, current_model, current_model_name,
                   SUBTITLE_OUTPUT_FORMAT, config_file, temp, last, th>>

NextNorm ==
    \/ ExtractCurrentCall
    \/ PreprocessStamp
    \/ PreprocessRun
    \/ ExtractTranscribe
    \/ ExtractResult
    \/ ExtractCleanup
    \/ ClockUsec

SpecNorm == InitNorm /\ [][NextNorm]_vars

\* a thread is inside _preprocess_audio or later in its call and holds a
\* scratch path
HoldsScratch(t) ==
    /\ th[t].pc \in {"ffmpeg", "transcribe", "result", "cleanup"}
    /\ th[t].preprocessed_file # NoPath
    /\ th[t].preprocessed_file # th[t].file_path

\* C12 (as claimed): no two calls in flight hold the same scratch path.
C12_ScratchPathsDistinct ==
    \A t1, t2 \in Threads :
        (t1 # t2 /\ HoldsScratch(t1) /\ HoldsScratch(t2))
            => th[t1].preprocessed_file # th[t2].preprocessed_file

-----------------------------------------------------------------------------
(* Specification of the subtitle documents: calls of the service while the *)
(* wall clock advances.  The normalization capability is absent and the    *)
(* selection record names the default model.                               *)

\* values of SUBTITLE_OUTPUT_FORMAT in the environment: unset (so 'vtt'),
\* upper case, and a format outside the allow-list
EnvFormats == {"vtt", "SRT", "ass"}

\* the record found at start: one written by an earlier process, with a
\* format of the allow-list or with another value
DocsRecords == {RecordFile(WHISPER_DEFAULT_MODEL, f) : f \in {"srt", "VTT", "ass"}}

InitDocs ==
    \E wm \in BOOLEAN, t \in InitialTemps, ef \in EnvFormats, file \in DocsRecords :
        /\ WhisperModel = wm
        /\ FFmpeg = FALSE
        /\ StoresAtRest
        /\ env_format = ef
        /\ current_model = "None"
        /\ current_model_name = WHISPER_DEFAULT_MODEL
        /\ SUBTITLE_OUTPUT_FORMAT = Construct(file, "ok").format
        /\ config_file = file
        /\ temp = t
        /\ usec = 0
        /\ now = 0
        /\ issued = {}
        /\ subtitles = EmptyDir
        /\ th = [i \in Threads |-> Idle]
        /\ last = Report("init", "None", NoPath, TRUE,
                         Runtime(TRUE, "None", WHISPER_DEFAULT_MODEL, file, 0),
                         [raised |-> FALSE, path |-> NoPath, created |-> {},
                          files |-> t],
                         NoRun)

NextDocs == ExtractSubtitle \/ Tick

SpecDocs == InitDocs /\ [][NextDocs]_vars

\* C11 (as claimed): a transcription call never writes its subtitle
\* document to a path at which a document of an earlier call exists.
C11_NoOverwrite ==
    [][last'.op = "extract_subtitle"
        => \A d \in last'.written : ~Exists(subtitles, d)]_vars

\* the extension of a document name, without the dot
Extension(name) == SubSeq(name, LastDot(name) + 1, Len(name))

\* C23: every subtitle document written is of a format of the allow-list
\* {srt, vtt}: the configured format if it is in the list, vtt otherwise;
\* a value outside the list raises no failure, and the extension of the
\* document and its body are of the same format.
C23_FormatAllowed ==
    [][last'.op = "extract_subtitle"
        => /\ last'.writer = "ok" => last'.written # {}
           /\ \A d \in last'.written :
                /\ subtitles'[d] \in SUBTITLE_AVAILABLE_FORMATS
                /\ Extension(d) = FormatChars(subtitles'[d])
                /\ subtitles'[d] =
                        IF LowerFormat(SUBTITLE_OUTPUT_FORMAT) \in SUBTITLE_AVAILABLE_FORMATS
                        THEN LowerFormat(SUBTITLE_OUTPUT_FORMAT) ELSE "vtt"]_vars

\* a document was written while the environment configures a format
\* outside the allow-list and the record on disk holds one too
C23_Witness ==
    /\ last.op = "extract_subtitle"
    /\ last.written # {}
    /\ SUBTITLE_OUTPUT_FORMAT \notin SUBTITLE_AVAILABLE_FORMATS
    /\ config_file.subtitle_output_format \notin SUBTITLE_AVAILABLE_FORMATS
    /\ \A d \in last.written : subtitles[d] = "vtt"

-----------------------------------------------------------------------------
(* Specification of the time codes: the two conversions applied to times   *)
(* taken at millisecond resolution.                                        *)

\* the times start at 0, just below a minute, just below an hour and just
\* below a day (milliseconds)
TimeBases == {0, 59900, 3599900, 86399900}

TimeSamples == {b + i : b \in TimeBases, i \in 0..MaxOffset}

InitTime ==
    \E t \in InitialTemps :
        /\ WhisperModel = TRUE
        /\ FFmpeg = FALSE
        /\ StoresAtRest
        /\ env_format = "vtt"
        /\ current_model = "None"
        /\ current_model_name = WHISPER_DEFAULT_MODEL
        /\ SUBTITLE_OUTPUT_FORMAT = "vtt"
        /\ config_file = RecordFile(WHISPER_DEFAULT_MODEL, "vtt")
        /\ temp = t
        /\ usec = 0
        /\ now = 0
        /\ issued = {}
        /\ subtitles = EmptyDir
        /\ th = [i \in Threads |-> Idle]
        /\ last = [op |-> "init", millis |-> 0, srt |-> <<>>, vtt |-> <<>>]

\* both conversions applied to the float of k milliseconds
SecondsToTime ==
    \E k \in TimeSamples :
    \E seconds \in {Seconds(k)} :
        /\ last' = [op |-> "seconds_to_time", millis |-> k,
                    srt |-> _seconds_to_srt_time(seconds),
                    vtt |-> _seconds_to_vtt_time(seconds)]
        /\ UNCHANGED <<deployment, stores, correlator, subtitles, current_model,
                       current_model_name, SUBTITLE_OUTPUT_FORMAT, config_file,
                       temp, usec, th>>

NextTime == SecondsToTime

SpecTime == InitTime /\ [][NextTime]_vars

\* the time of k milliseconds that a time code states
ParseTimecode(code) ==
    LET number(a, b) == Value10(SubSeq(code, a, b))
    IN  ((number(1, 2) * 60 + number(4, 5)) * 60 + number(7, 8)) * 1000
            + number(10, 12)

\* C19 (as claimed): for a time of k milliseconds both time codes state
\* hours = floor(s / 3600), minutes = floor((s mod 3600) / 60), seconds =
\* floor(s mod 60) and milliseconds = floor((s mod 1) * 1000), zero-padded
\* to 2, 2, 2 and 3 digits, and they differ only in the separator before
\* the milliseconds.
C19_TimeCodeFields ==
    last.op = "seconds_to_time"
        => LET k == last.millis
               fields == ZeroPad(k \div 3600000, 2) \o <<":">>
                            \o ZeroPad((k % 3600000) \div 60000, 2) \o <<":">>
                            \o ZeroPad((k % 60000) \div 1000, 2)
               millisecs == ZeroPad(k % 1000, 3)
           IN  /\ last.srt = fields \o <<",">> \o millisecs
               /\ last.vtt = fields \o <<".">> \o millisecs

\* C20 (as claimed): parsing the time code rendered for a time gives that
\* time truncated to whole milliseconds, in both formats.
C20_RoundTrip ==
    last.op = "seconds_to_time"
        => /\ ParseTimecode(last.srt) = last.millis
           /\ ParseTimecode(last.vtt) = last.millis

-----------------------------------------------------------------------------
(* Specification of the rendered documents: both generators applied to    *)
(* transcripts of up to MaxSegments segments.                              *)

\* segment texts: a letter, a number, two words, and two paragraphs
TextSamples ==
    {<<"a">>, <<"1">>, <<"b", " ", "c">>, <<"a", "\n", "\n", "b">>}

\* lengths of a segment (milliseconds)
SegmentUnits == {2500, 3000}

\* the transcript of the given texts in segments of the given length
Transcript(texts, unit) ==
    [i \in 1..Len(texts) |->
        [start |-> Seconds((i - 1) * unit), end |-> Seconds(i * unit),
         text |-> texts[i]]]

InitRender ==
    \E t \in InitialTemps :
        /\ WhisperModel = TRUE
        /\ FFmpeg = FALSE
        /\ StoresAtRest
        /\ env_format = "vtt"
        /\ current_model = "None"
        /\ current_model_name = WHISPER_DEFAULT_MODEL
        /\ SUBTITLE_OUTPUT_FORMAT = "vtt"
        /\ config_file = RecordFile(WHISPER_DEFAULT_MODEL, "vtt")
        /\ temp = t
        /\ usec = 0
        /\ now = 0
        /\ issued = {}
        /\ subtitles = EmptyDir
        /\ th = [i \in Threads |-> Idle]
        /\ last = [op |-> "init", segments |-> <<>>, srt |-> <<>>, vtt |-> <<>>]

\* both generators applied to one transcript
GenerateContent ==
    \E n \in 0..MaxSegments, unit \in SegmentUnits :
    \E texts \in [1..n -> TextSamples] :
    \E segments \in {Transcript(texts, unit)} :
        /\ last' = [op |-> "generate_content", segments |-> segments,
                    srt |-> _generate_srt_content(segments),
                    vtt |-> _generate_vtt_content(segments)]
        /\ UNCHANGED <<deployment, stores, correlator, subtitles, current_model,
                       current_model_name, SUBTITLE_OUTPUT_FORMAT, config_file,
                       temp, usec, th>>

NextRender == GenerateContent

SpecRender == InitRender /\ [][NextRender]_vars

\* the lines of a document: the pieces that end in a line break
Lines(content) ==
    LET breaks == {i \in 1..Len(content) : content[i] = "\n"}
        break(k) == IF k = 0 THEN 0
                    ELSE CHOOSE p \in breaks :
                            Cardinality({q \in breaks : q <= p}) = k
    IN  [k \in 1..Cardinality(breaks) |->
            SubSeq(content, break(k - 1) + 1, break(k) - 1)]

\* a line of the shape HH:MM:SS<separator>mmm --> HH:MM:SS<separator>mmm
IsTimecodeRange(line, separator) ==
    LET IsTimecode(code) ==
            \A i \in 1..12 :
                IF i \in {3, 6} THEN code[i] = ":"
                ELSE IF i = 9 THEN code[i] = separator
                ELSE \E n \in 0..9 : code[i] = Digit(n)
    IN  /\ Len(line) = 29
        /\ IsTimecode(SubSeq(line, 1, 12))
        /\ SubSeq(line, 13, 17) = Arrow
        /\ IsTimecode(SubSeq(line, 18, 29))

\* C18 (as claimed): the VTT document is the header line, a blank line
\* and one block per segment (time-code range, text line, blank line) with
\* no index line; the SRT document is one block per segment (index line
\* N for the Nth segment, time-code range, text line, blank line); the
\* blocks are in the order of the segments.
C18_BlocksPerSegment ==
    last.op = "generate_content"
        => LET n == Len(last.segments)
               vtt == Lines(last.vtt)
               srt == Lines(last.srt)
           IN  /\ Len(vtt) = 2 + 3 * n
               /\ vtt[1] = <<"W", "E", "B", "V", "T", "T">>
               /\ vtt[2] = <<>>
               /\ \A i \in 1..n :
                    /\ IsTimecodeRange(vtt[3 * i], ".")
                    /\ vtt[3 * i + 1] = last.segments[i].text
                    /\ vtt[3 * i + 2] = <<>>
               /\ Len(srt) = 4 * n
               /\ \A i \in 1..n :
                    /\ srt[4 * i - 3] = Decimal(i)
                    /\ IsTimecodeRange(srt[4 * i - 2], ",")
                    /\ srt[4 * i - 1] = last.segments[i].text
                    /\ srt[4 * i] = <<>>

-----------------------------------------------------------------------------
(* Transcription engine: the segments of a result *)

\* the characters str.strip() removes
Whitespace == {" ", "\n", "\t"}

\* str.strip()
Strip(text) ==
    LET solid == {i \in 1..Len(text) : text[i] \notin Whitespace}
    IN  IF solid = {} THEN <<>>
        ELSE SubSeq(text,
                    CHOOSE i \in solid : \A j \in solid : i <= j,
                    CHOOSE i \in solid : \A j \in solid : i >= j)

\* the element the loop of lines 275-280 appends for a decoder segment,
\* with the text as the decoder gave it
SegmentOf_untrimmed(segment) ==
    [start |-> segment.start, end |-> segment.end, text |-> segment.text]

\* the element the loop of lines 275-280 appends for a decoder segment
SegmentOf(segment) ==
    [start |-> segment.start, end |-> segment.end, text |-> Strip(segment.text)]

RECURSIVE FullText(_, _)
\* full_text after the loop of lines 275-281 from the i-th segment on
FullText(segments, i) ==
    IF i > Len(segments) THEN <<>>
    ELSE Strip(segments[i].text) \o <<" ">> \o FullText(segments, i + 1)

\* extract_subtitle, lines 272-296: 'segments', 'subtitle_text' and the
\* SRT document of a decoder output
Transcribed(decoded) ==
    LET subtitle_segments == [i \in 1..Len(decoded) |-> SegmentOf(decoded[i])]
    IN  [op |-> "transcribed", decoded |-> decoded,
         segments |-> subtitle_segments,
         subtitle_text |-> Strip(FullText(decoded, 1)),
         srt |-> _generate_srt_content(subtitle_segments)]

-----------------------------------------------------------------------------
(* Specification of the segments of a result: the decoder has returned a   *)
(* transcript of up to MaxSegments segments, the engine builds the result. *)

\* texts of decoder segments; the decoder yields no segment whose text is
\* empty after trimming
DecoderTexts ==
    {<<"A">>, <<"B">>, <<"C">>, <<" ", "D">>, <<"e", " ", "f", "\n">>}

InitSegments ==
    \E t \in InitialTemps, n \in 0..MaxSegments, unit \in SegmentUnits :
    \E texts \in [1..n -> DecoderTexts] :
        /\ WhisperModel = TRUE
        /\ FFmpeg = FALSE
        /\ StoresAtRest
        /\ env_format = "srt"
        /\ current_model = WHISPER_DEFAULT_MODEL
        /\ current_model_name = WHISPER_DEFAULT_MODEL
        /\ SUBTITLE_OUTPUT_FORMAT = "srt"
        /\ config_file = RecordFile(WHISPER_DEFAULT_MODEL, "srt")
        /\ temp = t
        /\ usec = 0
        /\ now = 0
        /\ issued = {}
        /\ subtitles = EmptyDir
        /\ th = [i \in Threads |-> Idle]
        /\ last = [op |-> "decoded", decoded |-> Transcript(texts, unit)]

\* the engine builds the result from the decoder output
BuildResult ==
    /\ last.op = "decoded"
    /\ last' = Transcribed(last.decoded)
    /\ UNCHANGED <<deployment, stores, correlator, subtitles, current_model,
                   current_model_name, SUBTITLE_OUTPUT_FORMAT, config_file,
                   temp, usec, th>>

NextSegments == BuildResult

SpecSegments == InitSegments /\ [][NextSegments]_vars

\* text is raw without its leading and trailing white space
IsTrimOf(text, raw) ==
    /\ text # <<>> => (text[1] \notin Whitespace /\ text[Len(text)] \notin Whitespace)
    /\ \E a \in 0..Len(raw) :
        /\ a + Len(text) <= Len(raw)
        /\ SubSeq(raw, a + 1, a + Len(text)) = text
        /\ \A i \in (1..a) \cup ((a + Len(text) + 1)..Len(raw)) :
                raw[i] \in Whitespace

RECURSIVE Joined(_, _)
\* the texts of the segments from the i-th on, joined by single spaces
Joined(segments, i) ==
    IF i > Len(segments) THEN <<>>
    ELSE IF i = Len(segments) THEN segments[i].text
    ELSE segments[i].text \o <<" ">> \o Joined(segments, i + 1)

\* the decoder output (0.0, 3.0, "A"), (3.0, 6.0, "B"), (6.0, 9.0, "C")
ScenarioABC == Transcript(<<<<"A">>, <<"B">>, <<"C">>>>, 3000)

\* the lines of the SRT document of ScenarioABC
ScenarioLines ==
    <<<<"1">>,
      <<"0", "0", ":", "0", "0", ":", "0", "0", ",", "0", "0", "0", " ", "-", "-", ">", " ", "0", "0", ":", "0", "0", ":", "0", "3", ",", "0", "0", "0">>,
      <<"A">>,
      <<>>,
      <<"2">>,
      <<"0", "0", ":", "0", "0", ":", "0", "3", ",", "0", "0", "0", " ", "-", "-", ">", " ", "0", "0", ":", "0", "0", ":", "0", "6", ",", "0", "0", "0">>,
      <<"B">>,
      <<>>,
      <<"3">>,
      <<"0", "0", ":", "0", "0", ":", "0", "6", ",", "0", "0", "0", " ", "-", "-", ">", " ", "0", "0", ":", "0", "0", ":", "0", "9", ",", "0", "0", "0">>,
      <<"C">>,
      <<>>>>

\* C21: the result keeps the decoder's segments in count and order, with
\* start and end unchanged and the text trimmed; the full text is the
\* trimmed texts joined by single spaces; and the decoder output
\* (0,3,"A"), (3,6,"B"), (6,9,"C") renders in SRT as three blocks 1, 2, 3
\* with the ranges 00:00:00,000 --> 00:00:03,000, 00:00:03,000 -->
\* 00:00:06,000 and 00:00:06,000 --> 00:00:09,000.
C21_SegmentsPreserved ==
    last.op = "transcribed"
        => /\ Len(last.segments) = Len(last.decoded)
           /\ \A i \in 1..Len(last.decoded) :
                /\ last.segments[i].start = last.decoded[i].start
                /\ last.segments[i].end = last.decoded[i].end
                /\ IsTrimOf(last.segments[i].text, last.decoded[i].text)
           /\ last.subtitle_text = Joined(last.segments, 1)
           /\ last.decoded = ScenarioABC => Lines(last.srt) = ScenarioLines

\* the result of a transcript of MaxSegments segments, among them one whose
\* text the decoder gave with white space around it
C21_Witness ==
    /\ last.op = "transcribed"
    /\ Len(last.segments) = MaxSegments
    /\ \E i \in 1..Len(last.decoded) :
            last.segments[i].text # last.decoded[i].text

-----------------------------------------------------------------------------
(* Model registry: which models are available locally *)

\* the identifier as it is compared with the name of a cache entry
ModelChars(model_name) ==
    CASE model_name = "base" -> <<"b", "a", "s", "e">>
      [] OTHER ->
            <<"l", "a", "r", "g", "e", "-", "v", "3", "-", "t", "u", "r",
            "b", "o">>

\* what Model/faster-whisper-{model_name} is: nothing, a regular file, a
\* directory without config.json, or a directory with config.json
LocalStates == {"absent", "file", "empty", "model"}

\* sub in str
Contains(str, sub) ==
    \E i \in 0..(Len(str) - Len(sub)) : SubSeq(str, i + 1, i + Len(sub)) = sub

\* an entry of the download cache that is a directory and whose lower-cased
\* name contains the identifier
CacheHolds(model_name) ==
    /\ hub_cache.exists
    /\ \E item \in DOMAIN hub_cache.items :
        /\ hub_cache.items[item] = "dir"
        /\ Contains(Lower(item), ModelChars(model_name))

\* WhisperService._is_model_downloaded
_is_model_downloaded(model_name) ==
    IF model_folder[model_name] \in {"empty", "model"}
    THEN model_folder[model_name] = "model"
    ELSE CacheHolds(model_name)

\* WhisperService.get_available_models: the entry of each registry
\* identifier (the list is in registry order)
get_available_models ==
    [model_name \in WHISPER_AVAILABLE_MODELS |->
        [name |-> model_name,
         is_current |-> model_name = current_model_name,
         is_downloaded |-> _is_model_downloaded(model_name)]]

\* names of cache entries: the repositories of the two registry models and
\* of a model the registry does not list
HubBase ==
    <<"m", "o", "d", "e", "l", "s", "-", "-", "S", "y", "s", "t", "r",
    "a", "n", "-", "-", "f", "a", "s", "t", "e", "r", "-", "w", "h", "i",
    "s", "p", "e", "r", "-", "b", "a", "s", "e">>

HubTurbo ==
    <<"m", "o", "d", "e", "l", "s", "-", "-", "m", "o", "b", "i", "u",
    "s", "l", "a", "b", "s", "g", "m", "b", "h", "-", "-", "f", "a", "s",
    "t", "e", "r", "-", "w", "h", "i", "s", "p", "e", "r", "-", "l", "a",
    "r", "g", "e", "-", "v", "3", "-", "t", "u", "r", "b", "o">>

HubTiny ==
    <<"m", "o", "d", "e", "l", "s", "-", "-", "S", "y", "s", "t", "r",
    "a", "n", "-", "-", "f", "a", "s", "t", "e", "r", "-", "w", "h", "i",
    "s", "p", "e", "r", "-", "t", "i", "n", "y">>

HubNames == {HubBase, HubTurbo, HubTiny}

\* the download cache: absent, or a directory in which each name is a
\* directory, a regular file, or missing
HubCaches ==
    {NoCache} \cup
    {[exists |-> TRUE, items |-> [n \in names |-> kind[n]]] :
        names \in SUBSET HubNames, kind \in [HubNames -> {"dir", "file"}]}

\* Specification of the model listing: the registry is listed over the
\* model directories and cache entries found on disk.
InitModels ==
    \E folder \in [WHISPER_AVAILABLE_MODELS -> LocalStates], hub \in HubCaches :
        /\ WhisperModel = TRUE
        /\ FFmpeg = FALSE
        /\ env_format = "vtt"
        /\ current_model = "None"
        /\ current_model_name = WHISPER_DEFAULT_MODEL
        /\ SUBTITLE_OUTPUT_FORMAT = "vtt"
        /\ config_file = RecordFile(WHISPER_DEFAULT_MODEL, "vtt")
        /\ temp = EmptyDir
        /\ usec = 0
        /\ now = 0
        /\ issued = {}
        /\ subtitles = EmptyDir
        /\ th = [i \in Threads |-> Idle]
        /\ model_folder = folder
        /\ hub_cache = hub
        /\ ai_configs = EmptyTable
        /\ last = [op |-> "init"]

\* GET /api/whisper/models
ListModels ==
    /\ last' = [op |-> "models", models |-> get_available_models]
    /\ UNCHANGED <<deployment, stores, correlator, subtitles, current_model,
                   current_model_name, SUBTITLE_OUTPUT_FORMAT, config_file,
                   temp, usec, th>>

NextModels == ListModels

SpecModels == InitModels /\ [][NextModels]_vars

\* rule (a): the local directory exists and contains config.json
LocalComplete(model_name) == model_folder[model_name] = "model"

\* rule (b): the cache contains a directory whose name references the
\* identifier
CacheReferences(model_name) ==
    /\ hub_cache.exists
    /\ \E item \in DOMAIN hub_cache.items :
        /\ hub_cache.items[item] = "dir"
        /\ \E i \in 1..Len(item) :
            /\ i + Len(ModelChars(model_name)) - 1 <= Len(item)
            /\ \A k \in 1..Len(ModelChars(model_name)) :
                Lower(<<item[i + k - 1]>>) = <<ModelChars(model_name)[k]>>

\* C24: each registry identifier is listed as locally available if and only
\* if its local directory exists and contains config.json, or the download
\* cache contains a directory whose name references the identifier; a local
\* directory without config.json does not keep the cache from making the
\* model available.
C24_Available ==
    last.op = "models"
        => \A m \in WHISPER_AVAILABLE_MODELS :
                last.models[m].is_downloaded
                    <=> (LocalComplete(m) \/ CacheReferences(m))

-----------------------------------------------------------------------------
(* Claims about the lookup and the deletion of uploads *)

\* the regular files of the Temp folder whose stem starts with file_id
PrefixFiles(file_id) ==
    {n \in DOMAIN temp : IsFile(temp, n) /\ StartsWith(Stem(n), file_id)}

\* the regular files of the Temp folder whose stem is file_id
ExactFiles(file_id) ==
    {n \in DOMAIN temp : IsFile(temp, n) /\ Stem(n) = file_id}

\* C26: find_file_by_id returns nothing if and only if no regular file of
\* the Temp folder has a stem that starts with the id; a path it returns is
\* a regular file of the Temp folder, never a directory, whose stem has the
\* id as a prefix; and when exactly one file has the stem id, that file is
\* the result in whatever order the folder is listed.
C26_ResolveResult ==
    last.op = "resolve" =>
        /\ last.result = NoPath <=> PrefixFiles(last.file_id) = {}
        /\ last.result # NoPath => last.result \in PrefixFiles(last.file_id)
        /\ Cardinality(ExactFiles(last.file_id)) = 1
                => ExactFiles(last.file_id) = {last.result}

\* C26 witness: nothing was returned for an id although a directory of the
\* Temp folder has a name that starts with it
C26_Witness ==
    /\ last.op = "resolve"
    /\ last.result = NoPath
    /\ \E n \in DOMAIN temp :
        ~IsFile(temp, n) /\ StartsWith(Stem(n), last.file_id)

\* C27: a delete request for id removes only the file id denotes: a file is
\* removed only if its stem equals id, at most one file is removed by a
\* request, and every other entry of the Temp folder, the files whose stem
\* merely starts with id among them, is left in place.
C27_DeleteExactOnly ==
    [][last'.op = "delete"
        => /\ \A n \in DOMAIN temp :
                n \notin DOMAIN temp' => Stem(n) = last'.file_id
           /\ Cardinality(DOMAIN temp \ DOMAIN temp') <= 1
           /\ \A n \in DOMAIN temp' : n \in DOMAIN temp /\ temp'[n] = temp[n]]_vars

-----------------------------------------------------------------------------
(* Provider-configuration store: models/ai_config.py (AIConfigModel) and    *)
(* services/ai_config_service.py (AIConfigService).  A row is kept with its *)
(* name, provider and is_current columns; the other columns are set like    *)
(* provider and the time stamps are left out.  Each method runs in a        *)
(* `with sqlite3.connect(...)` block, which commits when the block is left  *)
(* normally, by a return as well, and rolls back when it is left by an      *)
(* exception.                                                               *)

\* ids the table may give out
MaxConfigs == 3

ConfigIds == 1..MaxConfigs

ConfigNames == {"A", "B", "C"}

Providers == {"openai", "ollama"}

\* the request bodies: name "" stands for a body without a name
ConfigData ==
    [name : ConfigNames \cup {""}, provider : Providers, is_current : BOOLEAN]

ConfigRow(config) ==
    [name |-> config.name, provider |-> config.provider,
     is_current |-> config.is_current]

\* UPDATE ai_configs SET is_current = FALSE
ClearCurrent(rows) ==
    [i \in DOMAIN rows |-> [rows[i] EXCEPT !.is_current = FALSE]]

\* the UNIQUE constraint on name, for a row written under id
NameTaken(rows, id, name) ==
    \E i \in DOMAIN rows \ {id} : rows[i].name = name

\* AIConfigModel.create_config; raised: the INSERT raised IntegrityError and
\* the block rolled back
create_config(db, config) ==
    LET rows == IF config.is_current THEN ClearCurrent(db.rows) ELSE db.rows
        config_id == db.seq + 1
    IN  IF NameTaken(db.rows, config_id, config.name)
        THEN [raised |-> TRUE, ret |-> FALSE, db |-> db]
        ELSE [raised |-> FALSE, ret |-> TRUE,
              db |-> [rows |-> [i \in DOMAIN rows \cup {config_id} |->
                                    IF i = config_id THEN ConfigRow(config)
                                    ELSE rows[i]],
                      seq |-> config_id]]

\* AIConfigModel.update_config: ret is FALSE when None is returned
update_config(db, config_id, config) ==
    LET rows == IF config.is_current THEN ClearCurrent(db.rows) ELSE db.rows
    IN  IF config_id \in DOMAIN db.rows /\ NameTaken(db.rows, config_id, config.name)
        THEN [raised |-> TRUE, ret |-> FALSE, db |-> db]
        ELSE IF config_id \in DOMAIN db.rows
        THEN [raised |-> FALSE, ret |-> TRUE,
              db |-> [db EXCEPT !.rows = [rows EXCEPT ![config_id] = ConfigRow(config)]]]
        ELSE [raised |-> FALSE, ret |-> FALSE, db |-> [db EXCEPT !.rows = rows]]

\* AIConfigModel.delete_config
delete_config(db, config_id) ==
    IF config_id \notin DOMAIN db.rows
    THEN [raised |-> FALSE, ret |-> FALSE, db |-> db]
    ELSE [raised |-> FALSE, ret |-> TRUE,
          db |-> [db EXCEPT !.rows = [i \in DOMAIN db.rows \ {config_id} |-> db.rows[i]]]]

\* set_current_config without the UPDATE that clears the other flags
set_current_config_keeps_flags(db, config_id) ==
    IF config_id \notin DOMAIN db.rows
    THEN [raised |-> FALSE, ret |-> FALSE, db |-> db]
    ELSE [raised |-> FALSE, ret |-> TRUE,
          db |-> [db EXCEPT !.rows[config_id].is_current = TRUE]]

\* AIConfigModel.set_current_config
set_current_config(db, config_id) ==
    IF config_id \notin DOMAIN db.rows
    THEN [raised |-> FALSE, ret |-> FALSE, db |-> db]
    ELSE [raised |-> FALSE, ret |-> TRUE,
          db |-> [db EXCEPT !.rows = [ClearCurrent(db.rows) EXCEPT
                                        ![config_id].is_current = TRUE]]]

\* the required-fields test of the service: a field is missing or empty
MissingField(config_data) == config_data.name = ""

\* the name test of the service over get_all_configs
NameExists(db, config_id, config_data) ==
    \E i \in DOMAIN db.rows : i # config_id /\ db.rows[i].name = config_data.name

Rejected(db) == [raised |-> FALSE, ret |-> FALSE, db |-> db]

\* report of a call of the configuration service: found tells whether
\* config_id named a row when the call began, was_current whether that row
\* was the current one
ConfigReport(op, config_id, config_data, result) ==
    [op |-> op, config_id |-> config_id, config_data |-> config_data,
     success |-> result.ret,
     found |-> config_id \in DOMAIN ai_configs.rows,
     was_current |-> (config_id \in DOMAIN ai_configs.rows
                        /\ ai_configs.rows[config_id].is_current)]

\* the variables the configuration service leaves alone
NoConfigState ==
    <<deployment, correlator, subtitles, current_model, current_model_name,
      SUBTITLE_OUTPUT_FORMAT, config_file, temp, usec, th, model_folder,
      hub_cache>>

\* AIConfigService.create_config
service_create_config(config_data) ==
    LET result == IF MissingField(config_data) THEN Rejected(ai_configs)
                  ELSE IF NameExists(ai_configs, 0, config_data)
                  THEN Rejected(ai_configs)
                  ELSE create_config(ai_configs, config_data)
    IN  /\ ai_configs' = result.db
        /\ last' = ConfigReport("create_config", 0, config_data, result)
        /\ UNCHANGED NoConfigState

\* AIConfigService.update_config
service_update_config(config_id, config_data) ==
    LET result == IF MissingField(config_data) THEN Rejected(ai_configs)
                  ELSE IF NameExists(ai_configs, config_id, config_data)
                  THEN Rejected(ai_configs)
                  ELSE update_config(ai_configs, config_id, config_data)
    IN  /\ ai_configs' = result.db
        /\ last' = ConfigReport("update_config", config_id, config_data, result)
        /\ UNCHANGED NoConfigState

NoData == [name |-> "", provider |-> "openai", is_current |-> FALSE]

\* AIConfigService.delete_config
service_delete_config(config_id) ==
    LET result == delete_config(ai_configs, config_id)
    IN  /\ ai_configs' = result.db
        /\ last' = ConfigReport("delete_config", config_id, NoData, result)
        /\ UNCHANGED NoConfigState

\* AIConfigService.set_current_config
service_set_current_config(config_id) ==
    LET result == set_current_config(ai_configs, config_id)
    IN  /\ ai_configs' = result.db
        /\ last' = ConfigReport("set_current_config", config_id, NoData, result)
        /\ UNCHANGED NoConfigState

\* the table after migrate_from_json created the default configuration
MigratedTable ==
    create_config(EmptyTable,
                  [name |-> "A", provider |-> "openai", is_current |-> TRUE]).db

\* Specification of the configuration store: the calls of the service, one
\* at a time, on a new database or on one the migration filled.
InitConfigs ==
    \E db \in {EmptyTable, MigratedTable} :
        /\ WhisperModel = TRUE
        /\ FFmpeg = FALSE
        /\ env_format = "vtt"
        /\ current_model = "None"
        /\ current_model_name = WHISPER_DEFAULT_MODEL
        /\ SUBTITLE_OUTPUT_FORMAT = "vtt"
        /\ config_file = RecordFile(WHISPER_DEFAULT_MODEL, "vtt")
        /\ temp = EmptyDir
        /\ usec = 0
        /\ now = 0
        /\ issued = {}
        /\ subtitles = EmptyDir
        /\ th = [i \in Threads |-> Idle]
        /\ model_folder = NoModels
        /\ hub_cache = NoCache
        /\ ai_configs = db
        /\ last = [op |-> "init", success |-> TRUE]

CreateConfig ==
    /\ ai_configs.seq < MaxConfigs
    /\ \E config_data \in ConfigData : service_create_config(config_data)

UpdateConfig ==
    \E config_id \in ConfigIds, config_data \in ConfigData :
        service_update_config(config_id, config_data)

DeleteConfig == \E config_id \in ConfigIds : service_delete_config(config_id)

SetCurrentConfig == \E config_id \in ConfigIds : service_set_current_config(config_id)

NextConfigs == CreateConfig \/ UpdateConfig \/ DeleteConfig \/ SetCurrentConfig

SpecConfigs == InitConfigs /\ [][NextConfigs]_vars

\* the ids of the stored configurations that are marked current
Current(db) == {i \in DOMAIN db.rows : db.rows[i].is_current}

\* C29: after any sequence of create_config, update_config,
\* set_current_config and delete_config calls at most one stored
\* configuration is marked current; a set_current_config call on an
\* existing id makes exactly that configuration the current one; and
\* deleting the current configuration leaves none current.
C29_OneCurrent ==
    [][/\ Cardinality(Current(ai_configs)) <= 1
       /\ Cardinality(Current(ai_configs')) <= 1
       /\ (last'.op = "set_current_config" /\ last'.found)
            => Current(ai_configs') = {last'.config_id}
       /\ (last'.op = "delete_config" /\ last'.was_current)
            => Current(ai_configs') = {}]_vars

\* C29 witness: set_current_config moved the mark from another stored
\* configuration to the one named
C29_Witness ==
    /\ last.op = "set_current_config"
    /\ last.found
    /\ ~last.was_current
    /\ Cardinality(DOMAIN ai_configs.rows) >= 2
    /\ Current(ai_configs) = {last.config_id}

\* C30: a call of the store that reports failure leaves the stored
\* configurations unchanged; an update_config, set_current_config or
\* delete_config call on an id that names no configuration changes no row,
\* and such an update_config call with is_current = true does not clear
\* the mark of the current configuration.
C30_FailureChangesNothing ==
    [][(/\ last'.op \in {"create_config", "update_config", "set_current_config",
                         "delete_config"}
        /\ ~last'.success)
        => ai_configs' = ai_configs]_vars

====
